---- MODULE Spec2Model ----
(***************************************************************************)
(* agent-ios daemon: the command channel (socket-server), the session      *)
(* controller and the command handlers (daemon.ts), the backend process    *)
(* supervisor (WDAManager), the backend client (WDAClient), the snapshot   *)
(* parser and the reference store.                                         *)
(*                                                                         *)
(* The daemon is one Node.js process.  A handler runs uninterrupted up to  *)
(* its next await.  The variable ready holds the continuations that the    *)
(* microtask queue will run before the event loop takes its next event;    *)
(* every event (socket data, HTTP response, child process event, timer)    *)
(* is taken only when nothing is ready.                                    *)
(***************************************************************************)
EXTENDS Integers, Sequences, FiniteSets, TLC

\* ------------------------------------------------------------------ bounds
MaxCmds == 4
MaxInFlight == 2
MaxChunk == 2
MaxStarts == 2
NumConns == 2

Conns == 1..NumConns
Mgrs == 1..MaxStarts

\* null, undefined or the empty string of an attribute or a message (all falsy)
None == ""

\* an absent or empty name (falsy as well)
NoName == <<>>

\* ------------------------------------------------------------------ strings
\* A name is a sequence of characters.
ToLowerChar(ch) ==
  CASE ch = "P" -> "p"
    [] ch = "I" -> "i"
    [] ch = "W" -> "w"
    [] OTHER -> ch

ToLowerCase(s) == [k \in 1..Len(s) |-> ToLowerChar(s[k])]

Includes(s, sub) ==
  \E k \in 0..(Len(s) - Len(sub)) : SubSeq(s, k + 1, k + Len(sub)) = sub

\* ------------------------------------------------------------------ devices
\* What `xcrun simctl list devices -j` reports: the available devices.
Simulator(name, st) == [name |-> name, state |-> st]

IPhone15 == <<"i", "P", "h", "o", "n", "e", "1", "5">>

SimWorlds == { <<>>, << Simulator(IPhone15, "Shutdown") >> }

\* the selectors a start-session command carries (NoName: no --sim)
Selectors == { NoName, <<"i", "p", "h", "o", "n", "e">>, <<"w", "a", "t", "c", "h">> }

\* Array.prototype.find over the positions S that satisfy the test: the first
\* one, 0 when there is none
FirstMatch(S) ==
  IF S = {} THEN 0 ELSE CHOOSE k \in S : \A j \in S : k <= j

findSimulator(list, name) ==
  LET lowerName == ToLowerCase(name)
      exact == FirstMatch({ k \in 1..Len(list) : ToLowerCase(list[k].name) = lowerName })
  IN IF exact # 0 THEN exact
     ELSE FirstMatch({ k \in 1..Len(list) :
                         Includes(ToLowerCase(list[k].name), lowerName) })

getBootedSimulator(list) ==
  FirstMatch({ k \in 1..Len(list) : list[k].state = "Booted" })

\* the device handleStartSession picks when no selector is given and none is booted
DefaultSimulator(list) ==
  LET pick == FirstMatch({ k \in 1..Len(list) :
                             Includes(list[k].name, <<"i", "P", "h", "o", "n", "e">>) })
  IN IF pick # 0 THEN pick ELSE 1

\* ------------------------------------------------------------------ snapshot parser
\* An XMLNode: tag, the attributes the parser reads ("" when absent), children.
Node(tag, label, identifier, name, children) ==
  [tag |-> tag, label |-> label, identifier |-> identifier, name |-> name,
   children |-> children]

\* a ||-chain of attribute values: the first non-empty one, None when all are empty
OrElse(a, b) == IF a # None THEN a ELSE b

\* `@e${n}`
RefToken(n) == [prefix |-> "@e", n |-> n]

startsWithMarker(ref) == ref.prefix = "@e"

RefMapEntry(node) ==
  [type |-> node.tag,
   label |-> OrElse(node.label, node.name),
   identifier |-> OrElse(node.identifier, node.name)]

Element(ref, node, childRefs) ==
  [ref |-> ref, type |-> node.tag,
   label |-> OrElse(node.label, node.name),
   identifier |-> OrElse(node.identifier, node.name),
   children |-> childRefs]

\* a refMap that gets an entry only for a node with a label or an identifier
AddRefIfNamed(refMap, ref, node) ==
  IF RefMapEntry(node).label # None \/ RefMapEntry(node).identifier # None
  THEN (ref :> RefMapEntry(node)) @@ refMap
  ELSE refMap

\* refMap[ref] = refEntry
AddRef(refMap, ref, node) ==
  (ref :> RefMapEntry(node)) @@ refMap

\* processNode: acc carries refCounter, elements and refMap through the recursion;
\* the result also gives the ref assigned to node.
RECURSIVE processNode(_, _)
RECURSIVE processChildren(_, _, _)

\* a loop over the children in which every child starts from the counter its
\* elder sibling started from
processChildrenByValue(children, acc, childRefs) ==
  IF children = <<>>
  THEN [acc |-> acc, childRefs |-> childRefs]
  ELSE LET r == processNode(Head(children), acc)
       IN processChildren(Tail(children), [r.acc EXCEPT !.refCounter = acc.refCounter],
                          Append(childRefs, r.ref))

processChildren(children, acc, childRefs) ==
  IF children = <<>>
  THEN [acc |-> acc, childRefs |-> childRefs]
  ELSE LET r == processNode(Head(children), acc)
       IN processChildren(Tail(children), r.acc, Append(childRefs, r.ref))

\* a processNode that takes its ref after it processed the children
processNodePostOrder(node, acc) ==
  LET sub == processChildren(node.children, acc, <<>>)
      ref == RefToken(sub.acc.refCounter)
  IN [ref |-> ref,
      acc |-> [refCounter |-> sub.acc.refCounter + 1,
               elements |-> Append(sub.acc.elements, Element(ref, node, sub.childRefs)),
               refMap |-> AddRef(sub.acc.refMap, ref, node)]]

processNode(node, acc) ==
  LET ref == RefToken(acc.refCounter)
      sub == processChildren(node.children, [acc EXCEPT !.refCounter = @ + 1], <<>>)
  IN [ref |-> ref,
      acc |-> [refCounter |-> sub.acc.refCounter,
               elements |-> Append(sub.acc.elements, Element(ref, node, sub.childRefs)),
               refMap |-> AddRef(sub.acc.refMap, ref, node)]]

EmptyMap == [r \in {} |-> None]

\* parseWDASource applied to a parsed root (the root is never null here)
parseWDASource(root) ==
  LET r == processNode(root, [refCounter |-> 0, elements |-> <<>>, refMap |-> EmptyMap])
  IN [elements |-> r.acc.elements, tree |-> r.ref, refMap |-> r.acc.refMap]

\* The tree sources the backend serves in this model.  NoRoot is a source for
\* which parseXML returns null.
NoRoot == Node(None, None, None, None, <<>>)

SourceA == Node("Window", None, None, None,
                << Node("Button", None, "login", None, <<>>) >>)

SourceB == Node("Window", None, None, None,
                << Node("StaticText", "Welcome", None, None, <<>>) >>)

\* a screen with nothing on it
SourceC == Node("Application", None, None, None, <<>>)

Sources == { SourceA, SourceB, SourceC, NoRoot }

\* the refs a tap command carries in this model
TapRefs == { RefToken(1) }

\* ------------------------------------------------------------------ state
VARIABLES
  sims,           \* the device tool's list of available devices
  simulator,      \* state.simulator: index into sims, 0 for null
  wdaManager,     \* state.wdaManager: a supervisor of Mgrs, 0 for null
  wdaClient,      \* state.wdaClient: a backend client of Mgrs, 0 for null
  refStore,       \* state.refStore.refs: ref -> RefMapEntry
  mgr,            \* the WDAManager objects created so far
  child,          \* the backend child process each WDAManager spawned
  client,         \* the WDAClient objects created so far
  cmd,            \* the handlers of the command lines being processed
  ready,          \* handlers whose continuation is in the microtask queue
  received,       \* number of command lines received so far
  issued,         \* the reference maps returned by the snapshots so far
  exitScheduled,  \* the timer of handleStopSession that exits the process is pending
  exited          \* process.exit has run

daemonVars == << sims, simulator, wdaManager, wdaClient, refStore, mgr, child, client,
                 cmd, ready, received, issued, exitScheduled, exited >>

\* The state of the components that are also specified on their own, outside
\* the daemon: parseWDASource applied to one tree.
VARIABLES
  xmlRoot,        \* parseWDASource: the root parseXML returned
  parsed          \* parseWDASource: the Snapshot returned, NoSnapshot before the call

parserVars == << xmlRoot, parsed >>

NoSnapshot == [elements |-> <<>>, tree |-> [prefix |-> None, n |-> 0], refMap |-> EmptyMap]

ParserAtRest == xmlRoot = NoRoot /\ parsed = NoSnapshot

\* ... and one handler of a command that takes a ref (tap, type, clear, swipe,
\* wait) running alone.
VARIABLES
  handler,        \* the handler: its command, where it stands, what it returned
  calls           \* the calls it made on the reference table and on the backend

refVars == << handler, calls >>

NoHandler == [action |-> None, pc |-> "none"]

RefAtRest == handler = NoHandler /\ calls = <<>>

\* ... and the command channel with the handlers taken whole: what a handler
\* does to the session state happens when it settles.
VARIABLES
  pending,        \* the runs of the data listener: the line at hand, the handler awaited
  buffered,       \* buffer holds the beginning of a line
  arrived,        \* number of complete lines received
  handled,        \* number of calls of the command handler
  writes,         \* number of responses written to the socket
  out             \* the response written last

channelVars == << pending, buffered, arrived, handled, writes, out >>

NoLine == [text |-> None, isObject |-> FALSE, obj |-> EmptyMap]
NoResponse == [id |-> None, success |-> FALSE, error |-> None]

\* a run of the data listener that does not exist
NoRun ==
  [pc |-> "none", line |-> NoLine, rest |-> 0, afterInvalid |-> FALSE,
   id |-> None, action |-> None, failed |-> 0, resp |-> NoResponse]

MaxRuns == 2
Runs == 1..MaxRuns

ChannelAtRest ==
  /\ pending = [i \in Runs |-> NoRun]
  /\ buffered = FALSE
  /\ arrived = 0
  /\ handled = 0
  /\ writes = 0
  /\ out = NoResponse

unitVars == << parserVars, refVars, channelVars >>

UnitsAtRest == ParserAtRest /\ RefAtRest /\ ChannelAtRest

vars == << daemonVars, unitVars >>

Slots == 1..MaxInFlight

NoRef == [prefix |-> None, n |-> 0]
NoEntry == [type |-> None, label |-> None, identifier |-> None]
NoResp == [ok |-> FALSE, kind |-> None]

\* the command lines a connection sends in this model
StartSessionCommand(sel) == [action |-> "start-session", sel |-> sel, ref |-> NoRef]
StopSessionCommand == [action |-> "stop-session", sel |-> NoName, ref |-> NoRef]
SnapshotCommand == [action |-> "snapshot", sel |-> NoName, ref |-> NoRef]
TapCommand(ref) == [action |-> "tap", sel |-> NoName, ref |-> ref]

CommandSchema ==
  { StartSessionCommand(sel) : sel \in Selectors }
    \cup { StopSessionCommand, SnapshotCommand }
    \cup { TapCommand(ref) : ref \in TapRefs }

\* what one data event carries: 1..MaxChunk complete lines
Chunks == UNION { [1..n -> CommandSchema] : n \in 1..MaxChunk }

\* the handler of a line received on connection c; more says that the loop of
\* the data handler has another line of the same chunk to process after it
Received(c, line, pc, more) ==
  [conn |-> c, action |-> line.action, sel |-> line.sel, ref |-> line.ref,
   pc |-> pc, more |-> more,
   sim |-> 0, mgr |-> 0, tgt |-> 0, cli |-> 0,
   entry |-> NoEntry, strat |-> 0, next |-> None,
   err |-> None, data |-> EmptyMap, resp |-> NoResp]

\* a slot that holds no handler
Idle == Received(0, [action |-> None, sel |-> NoName, ref |-> NoRef], "idle", FALSE)

\* the pc values at which a handler is suspended on an event or has nothing to run
AwaitPcs ==
  { "idle", "queued", "boot", "open", "wdaStart", "readyFetch", "readySleep",
    "createSession", "mgrStop", "delReq", "ensure", "srcReq", "findReq", "clickReq" }

NewManager == [created |-> FALSE, process |-> FALSE, resolved |-> FALSE, dstop |-> "none"]
NewChild == [st |-> "none", term |-> FALSE, kill |-> FALSE]
NewClient == [created |-> FALSE, sessionId |-> 0, made |-> 0]

\* the session state and the objects of a daemon that has just been started
Constructed ==
  /\ simulator = 0
  /\ wdaManager = 0
  /\ wdaClient = 0
  /\ refStore = EmptyMap
  /\ mgr = [m \in Mgrs |-> NewManager]
  /\ child = [m \in Mgrs |-> NewChild]
  /\ client = [m \in Mgrs |-> NewClient]
  /\ cmd = [s \in Slots |-> Idle]
  /\ ready = {}
  /\ received = 0
  /\ issued = {}
  /\ exitScheduled = FALSE
  /\ exited = FALSE

Init ==
  /\ sims \in SimWorlds
  /\ Constructed
  /\ UnitsAtRest

\* the daemon left alone, with no device
DaemonAtRest == sims = <<>> /\ Constructed

\* nothing is left in the microtask queue: the event loop takes its next event
Quiet == ready = {} /\ \A m \in Mgrs : mgr[m].dstop # "ready"

Event == ~exited /\ Quiet
Micro(i) == ~exited /\ i \in ready

\* The handlers in flight are kept in the order their lines arrived, in the
\* slots 1..InFlight; connections are numbered in the order of their oldest
\* handler in flight (a connection with nothing in flight has no state).
Busy == { s \in Slots : cmd[s].pc # "idle" }
InFlight == Cardinality(Busy)
ConnsInUse == { cmd[s].conn : s \in Busy }

NextManager == Cardinality({ m \in Mgrs : mgr[m].created }) + 1
NextClient == Cardinality({ k \in Mgrs : client[k].created }) + 1

\* supervisors created or still to be created by the handlers in flight
StartsSoFar ==
  (NextManager - 1)
    + Cardinality({ s \in Busy : cmd[s].action = "start-session" /\ cmd[s].mgr = 0 })
StartsIn(lines) == Cardinality({ k \in DOMAIN lines : lines[k].action = "start-session" })

\* the number of the connection of slot s once the handlers of cs are renumbered
Renumbered(cs, s) ==
  LET first == CHOOSE t \in Slots : cs[t].conn = cs[s].conn
                                      /\ \A u \in Slots : cs[u].conn = cs[s].conn => t <= u
  IN IF cs[s].pc = "idle" THEN 0
     ELSE Cardinality({ cs[t].conn : t \in 1..first })

\* the handler of cmd[i] goes on as record r: it stays in the microtask queue
\* unless r is suspended
Resume(i, r) ==
  /\ cmd' = [cmd EXCEPT ![i] = r]
  /\ ready' = IF r.pc \in AwaitPcs THEN ready \ {i} ELSE ready \cup {i}

\* return successResponse / errorResponse
Finish(c, ok, kind) == [c EXCEPT !.pc = "respond", !.resp = [ok |-> ok, kind |-> kind]]

\* ------------------------------------------------------------------ command channel
\* socket.on("data"): the complete lines of one chunk are processed one after the
\* other; the first one is dispatched in the same turn.
DataArrives(c, lines) ==
  /\ Event
  /\ c \in ConnsInUse \/ c = Cardinality(ConnsInUse) + 1
  /\ received + Len(lines) <= MaxCmds
  /\ InFlight + Len(lines) <= MaxInFlight
  /\ StartsSoFar + StartsIn(lines) <= MaxStarts
  /\ cmd' = [s \in Slots |->
               LET k == s - InFlight
               IN IF k \in 1..Len(lines)
                  THEN Received(c, lines[k], IF k = 1 THEN "dispatch" ELSE "queued",
                                k < Len(lines))
                  ELSE cmd[s]]
  /\ ready' = { InFlight + 1 }
  /\ received' = received + Len(lines)
  /\ UNCHANGED << sims, simulator, wdaManager, wdaClient, refStore, mgr, child,
                  client, issued, exitScheduled, exited >>
  /\ UNCHANGED unitVars

\* the handlers of cs without the one in slot i
Without(cs, i) ==
  LET left == [s \in Slots |->
                 IF s < i THEN cs[s] ELSE IF s + 1 \in Slots THEN cs[s + 1] ELSE Idle]
  IN [s \in Slots |-> [left[s] EXCEPT !.conn = Renumbered(left, s)]]

\* processCommand after the handler returned: socket.write of the response, then
\* the for-loop of the data handler goes on to the next line of the chunk.
Respond(i) ==
  /\ Micro(i)
  /\ cmd[i].pc = "respond"
  /\ cmd' = [s \in Slots |->
               IF s = i /\ cmd[i].more
               THEN [Without(cmd, i)[s] EXCEPT !.pc = "dispatch"]
               ELSE Without(cmd, i)[s]]
  /\ ready' = { IF j > i THEN j - 1 ELSE j : j \in ready \ {i} }
                 \cup (IF cmd[i].more THEN {i} ELSE {})
  /\ UNCHANGED << sims, simulator, wdaManager, wdaClient, refStore, mgr, child,
                  client, received, issued, exitScheduled, exited >>
  /\ UNCHANGED unitVars

\* ------------------------------------------------------------------ supervisor
\* this.process.kill(sig) on the child of supervisor m
Signalled(m, sig) ==
  IF child[m].st = "run"
  THEN [child EXCEPT ![m].term = @ \/ sig = "SIGTERM", ![m].kill = @ \/ sig = "SIGKILL"]
  ELSE child

\* WDAManager.stop() up to its await, called by the handler of cmd[i] with record c
\* on state.wdaManager: SIGTERM, then wait for close or for the grace timer.
\* With no process handle stop() returns at once.
ManagerStop(i, c) ==
  /\ child' = IF mgr[wdaManager].process THEN Signalled(wdaManager, "SIGTERM") ELSE child
  /\ Resume(i, [c EXCEPT !.tgt = wdaManager,
                         !.pc = IF mgr[wdaManager].process THEN "mgrStop"
                                ELSE "mgrStopped"])

\* the handlers awaiting the start() promise of supervisor m go on at pc
\* (resolve or reject of that promise)
SettleStart(cs, m, pc, err) ==
  [i \in DOMAIN cs |->
     IF cs[i].pc = "wdaStart" /\ cs[i].mgr = m
     THEN [cs[i] EXCEPT !.pc = pc, !.err = err]
     ELSE cs[i]]

StartWaiters(m) == { i \in Slots : cmd[i].pc = "wdaStart" /\ cmd[i].mgr = m }
StopWaiters(m) == { i \in Slots : cmd[i].pc = "mgrStop" /\ cmd[i].tgt = m }

\* the child prints the readiness marker
ChildReady(m) ==
  /\ Event
  /\ child[m].st = "run"
  /\ ~mgr[m].resolved
  /\ mgr' = [mgr EXCEPT ![m].resolved = TRUE]
  /\ cmd' = SettleStart(cmd, m, "started", None)
  /\ ready' = ready \cup StartWaiters(m)
  /\ UNCHANGED << sims, simulator, wdaManager, wdaClient, refStore, child, client,
                  received, issued, exitScheduled, exited >>
  /\ UNCHANGED unitVars

\* "close" of the child: the listener of start() clears the handle and rejects
\* a pending start; the listeners of the stop() calls in progress resolve them.
ChildClose(m) ==
  /\ Event
  /\ child[m].st \in {"run", "zombie"}
  /\ child' = [child EXCEPT ![m].st = "closed"]
  /\ mgr' = [mgr EXCEPT ![m].process = FALSE, ![m].resolved = TRUE,
                        ![m].dstop = IF @ = "wait" THEN "ready" ELSE @]
  /\ cmd' = [i \in Slots |->
               IF i \in StopWaiters(m) THEN [cmd[i] EXCEPT !.pc = "mgrStopped"]
               ELSE SettleStart(cmd, m, "catch", "wda-exited")[i]]
  /\ ready' = ready \cup StartWaiters(m) \cup StopWaiters(m)
  /\ UNCHANGED << sims, simulator, wdaManager, wdaClient, refStore, client,
                  received, issued, exitScheduled, exited >>
  /\ UNCHANGED unitVars

\* the 120 s timer of start(): this.stop() is called and not awaited, then reject
StartupTimeout(m) ==
  /\ Event
  /\ mgr[m].created
  /\ child[m].st # "none"
  /\ ~mgr[m].resolved
  /\ child' = IF mgr[m].process THEN Signalled(m, "SIGTERM") ELSE child
  /\ mgr' = [mgr EXCEPT ![m].resolved = TRUE,
                        ![m].dstop = IF mgr[m].process THEN "wait" ELSE "ready"]
  /\ cmd' = SettleStart(cmd, m, "catch", "wda-timeout")
  /\ ready' = ready \cup StartWaiters(m)
  /\ UNCHANGED << sims, simulator, wdaManager, wdaClient, refStore, client,
                  received, issued, exitScheduled, exited >>
  /\ UNCHANGED unitVars

\* the 5 s grace timer of the stop() started by the startup timer
DetachedGrace(m) ==
  /\ Event
  /\ mgr[m].dstop = "wait"
  /\ child' = IF mgr[m].process THEN Signalled(m, "SIGKILL") ELSE child
  /\ mgr' = [mgr EXCEPT ![m].dstop = "ready"]
  /\ UNCHANGED << sims, simulator, wdaManager, wdaClient, refStore, client, cmd,
                  ready, received, issued, exitScheduled, exited >>
  /\ UNCHANGED unitVars

\* ... and its last statement, this.process = null
DetachedReturn(m) ==
  /\ ~exited
  /\ mgr[m].dstop = "ready"
  /\ mgr' = [mgr EXCEPT ![m].process = FALSE, ![m].dstop = "done"]
  /\ UNCHANGED << sims, simulator, wdaManager, wdaClient, refStore, child, client,
                  cmd, ready, received, issued, exitScheduled, exited >>
  /\ UNCHANGED unitVars

\* the 5 s grace timer of a stop() that the handler of cmd[i] awaits
GraceTimeout(i) ==
  /\ Event
  /\ cmd[i].pc = "mgrStop"
  /\ child' = IF mgr[cmd[i].tgt].process THEN Signalled(cmd[i].tgt, "SIGKILL") ELSE child
  /\ Resume(i, [cmd[i] EXCEPT !.pc = "mgrStopped"])
  /\ UNCHANGED << sims, simulator, wdaManager, wdaClient, refStore, mgr, client,
                  received, issued, exitScheduled, exited >>
  /\ UNCHANGED unitVars

\* createSession stores the id of the response: the backend makes a new
\* session for every POST /session
SessionCreated(k) == [k EXCEPT !.sessionId = k.made + 1, !.made = k.made + 1]

\* ------------------------------------------------------------------ start-session
\* the device handleStartSession selects: 0 when there is none
SelectSimulator(list, sel) ==
  IF sel # NoName THEN findSimulator(list, sel)
  ELSE IF getBootedSimulator(list) # 0 THEN getBootedSimulator(list)
  ELSE IF Len(list) = 0 THEN 0
  ELSE DefaultSimulator(list)

\* handleStartSession up to the boot: the device tool may fail (execSync throws).
\* params.simulator is not read again after the selection.
StartSelect(i) ==
  /\ Micro(i)
  /\ cmd[i].pc = "dispatch"
  /\ cmd[i].action = "start-session"
  /\ \E toolOk \in BOOLEAN :
       LET sel == cmd[i].sel
           c == [cmd[i] EXCEPT !.sel = NoName]
           d == SelectSimulator(sims, sel)
       IN Resume(i,
            IF ~toolOk THEN Finish(c, FALSE, "start-failed")
            ELSE IF d = 0
              THEN Finish(c, FALSE, IF sel # NoName THEN "sim-not-found" ELSE "no-sims")
            ELSE [c EXCEPT !.sim = d,
                           !.pc = IF sims[d].state # "Booted" THEN "boot" ELSE "launch"])
  /\ UNCHANGED << sims, simulator, wdaManager, wdaClient, refStore, mgr, child,
                  client, received, issued, exitScheduled, exited >>
  /\ UNCHANGED unitVars

\* "close" of `simctl boot`: exit code 0 or 149, or a failure
StartBootClosed(i) ==
  /\ Event
  /\ cmd[i].pc = "boot"
  /\ \E ok \in BOOLEAN :
       /\ sims' = IF ok THEN [sims EXCEPT ![cmd[i].sim].state = "Booted"] ELSE sims
       /\ Resume(i, IF ok THEN [cmd[i] EXCEPT !.pc = "open"]
                    ELSE Finish(cmd[i], FALSE, "start-failed"))
  /\ UNCHANGED << simulator, wdaManager, wdaClient, refStore, mgr, child, client,
                  received, issued, exitScheduled, exited >>
  /\ UNCHANGED unitVars

\* "close" of `open -a Simulator`
StartOpenClosed(i) ==
  /\ Event
  /\ cmd[i].pc = "open"
  /\ \E ok \in BOOLEAN :
       Resume(i, IF ok THEN [cmd[i] EXCEPT !.pc = "launch"]
                 ELSE Finish(cmd[i], FALSE, "start-failed"))
  /\ UNCHANGED << sims, simulator, wdaManager, wdaClient, refStore, mgr, child,
                  client, received, issued, exitScheduled, exited >>
  /\ UNCHANGED unitVars

\* state.simulator = simulator; state.wdaManager = new WDAManager; start() up to
\* its promise: the project is missing (start throws), or the child is spawned,
\* or the spawn fails and "error" is emitted on the next tick.
StartLaunch(i) ==
  /\ Micro(i)
  /\ cmd[i].pc = "launch"
  /\ LET m == NextManager
         c == [cmd[i] EXCEPT !.mgr = m]
     IN /\ simulator' = c.sim
        /\ wdaManager' = m
        /\ \E launch \in {"missing", "spawned", "spawn-error"} :
             /\ mgr' = [mgr EXCEPT ![m] =
                          [created |-> TRUE, process |-> launch # "missing",
                           resolved |-> launch # "spawned", dstop |-> "none"]]
             /\ child' = [child EXCEPT ![m].st =
                            CASE launch = "missing" -> "none"
                              [] launch = "spawned" -> "run"
                              [] OTHER -> "zombie"]
             /\ Resume(i,
                  CASE launch = "missing" -> [c EXCEPT !.pc = "catch", !.err = "wda-missing"]
                    [] launch = "spawned" -> [c EXCEPT !.pc = "wdaStart"]
                    [] OTHER -> [c EXCEPT !.pc = "catch", !.err = "wda-spawn-error"])
  /\ UNCHANGED << sims, wdaClient, refStore, client, received, issued, exitScheduled, exited >>
  /\ UNCHANGED unitVars

\* after start() resolved: state.wdaManager.waitForReady(10000), first poll
StartStarted(i) ==
  /\ Micro(i)
  /\ cmd[i].pc = "started"
  /\ Resume(i, IF wdaManager = 0
               THEN [cmd[i] EXCEPT !.pc = "catch", !.err = "type-error"]
               ELSE [cmd[i] EXCEPT !.pc = "readyFetch"])
  /\ UNCHANGED << sims, simulator, wdaManager, wdaClient, refStore, mgr, child,
                  client, received, issued, exitScheduled, exited >>
  /\ UNCHANGED unitVars

\* isRunning() answered.  When it is true waitForReady returns and the handler
\* creates the client and posts the session request.
StartReadyFetched(i) ==
  /\ Event
  /\ cmd[i].pc = "readyFetch"
  /\ \E ok \in BOOLEAN :
       IF ok /\ wdaManager # 0
       THEN /\ client' = [client EXCEPT ![NextClient].created = TRUE]
            /\ wdaClient' = NextClient
            /\ Resume(i, [cmd[i] EXCEPT !.cli = NextClient, !.pc = "createSession"])
       ELSE /\ Resume(i, IF ok THEN [cmd[i] EXCEPT !.pc = "catch", !.err = "type-error"]
                         ELSE [cmd[i] EXCEPT !.pc = "readySleep"])
            /\ UNCHANGED << client, wdaClient >>
  /\ UNCHANGED << sims, simulator, wdaManager, refStore, mgr, child, received, issued, exitScheduled, exited >>
  /\ UNCHANGED unitVars

\* the poll interval of waitForReady elapsed: poll again, or give up when the
\* timeout has passed
StartReadySlept(i) ==
  /\ Event
  /\ cmd[i].pc = "readySleep"
  /\ \E inTime \in BOOLEAN :
       Resume(i, IF inTime THEN [cmd[i] EXCEPT !.pc = "readyFetch"]
                 ELSE [cmd[i] EXCEPT !.pc = "catch", !.err = "wda-not-ready"])
  /\ UNCHANGED << sims, simulator, wdaManager, wdaClient, refStore, mgr, child,
                  client, received, issued, exitScheduled, exited >>
  /\ UNCHANGED unitVars

\* POST /session answered: createSession stores the id and the handler returns
\* its success response, reading state.wdaManager.baseUrl
StartSessionCreated(i) ==
  /\ Event
  /\ cmd[i].pc = "createSession"
  /\ \E ok \in BOOLEAN :
       IF ok
       THEN /\ client' = [client EXCEPT ![cmd[i].cli] = SessionCreated(@)]
            /\ Resume(i, IF wdaManager = 0 THEN Finish(cmd[i], FALSE, "start-failed")
                         ELSE Finish(cmd[i], TRUE, "started"))
       ELSE /\ Resume(i, [cmd[i] EXCEPT !.pc = "catch", !.err = "wda-session-failed"])
            /\ UNCHANGED client
  /\ UNCHANGED << sims, simulator, wdaManager, wdaClient, refStore, mgr, child, received,
                  issued, exitScheduled, exited >>
  /\ UNCHANGED unitVars

\* the inner catch: stop the supervisor recorded in the state, if any
StartCatch(i) ==
  /\ Micro(i)
  /\ cmd[i].pc = "catch"
  /\ IF wdaManager # 0
     THEN /\ ManagerStop(i, cmd[i])
          /\ UNCHANGED << wdaManager, wdaClient >>
     ELSE /\ wdaClient' = 0
          /\ Resume(i, Finish(cmd[i], FALSE, cmd[i].err))
          /\ UNCHANGED << wdaManager, child >>
  /\ UNCHANGED << sims, simulator, refStore, mgr, client, received, issued, exitScheduled,
                  exited >>
  /\ UNCHANGED unitVars

\* ... after the awaited stop(): clear the state and return the error
StartCatchStopped(i) ==
  /\ Micro(i)
  /\ cmd[i].pc = "mgrStopped"
  /\ cmd[i].action = "start-session"
  /\ mgr' = [mgr EXCEPT ![cmd[i].tgt].process = FALSE]
  /\ wdaManager' = 0
  /\ wdaClient' = 0
  /\ Resume(i, Finish(cmd[i], FALSE, cmd[i].err))
  /\ UNCHANGED << sims, simulator, refStore, child, client, received, issued, exitScheduled, exited >>
  /\ UNCHANGED unitVars

\* ------------------------------------------------------------------ stop-session
\* a handleStopSession that would call process.exit(0) itself, before it returns
ExitNow ==
  /\ exitScheduled' = TRUE
  /\ exited' = TRUE

\* setTimeout(() => { cleanup(); process.exit(0) }, 100)
ScheduleExit ==
  /\ exitScheduled' = TRUE
  /\ exited' = exited

\* the end of handleStopSession: clear the refs and the device, schedule the
\* exit, return success
StopTail(i, c) ==
  /\ refStore' = EmptyMap
  /\ simulator' = 0
  /\ ScheduleExit
  /\ Resume(i, Finish(c, TRUE, "stopped"))

\* handleStopSession from `if (state.wdaManager)` on
StopManagerPart(i, c) ==
  IF wdaManager # 0
  THEN /\ ManagerStop(i, c)
       /\ UNCHANGED << wdaManager, refStore, simulator, exitScheduled, exited >>
  ELSE /\ StopTail(i, c)
       /\ UNCHANGED << wdaManager, child >>

\* handleStopSession up to its first await.  deleteSession sends its request
\* only when the client holds a session id.
StopBegin(i) ==
  /\ Micro(i)
  /\ cmd[i].pc = "dispatch"
  /\ cmd[i].action = "stop-session"
  /\ IF wdaClient # 0
     THEN /\ Resume(i, [cmd[i] EXCEPT !.cli = wdaClient,
                          !.pc = IF client[wdaClient].sessionId # 0 THEN "delReq"
                                 ELSE "deleted"])
          /\ UNCHANGED << wdaManager, refStore, simulator, exitScheduled, exited, child >>
     ELSE StopManagerPart(i, cmd[i])
  /\ UNCHANGED << sims, wdaClient, mgr, client, received, issued >>
  /\ UNCHANGED unitVars

\* DELETE /session/:id answered, with success or not: the id is dropped, then
\* state.wdaClient = null and the supervisor is stopped
StopDeleteResponded(i) ==
  /\ Event
  /\ cmd[i].pc = "delReq"
  /\ \E ok \in BOOLEAN :
       /\ client' = [client EXCEPT ![cmd[i].cli].sessionId = 0]
       /\ wdaClient' = 0
       /\ StopManagerPart(i, [cmd[i] EXCEPT !.err = IF ok THEN None ELSE "delete-failed"])
  /\ UNCHANGED << sims, mgr, received, issued >>
  /\ UNCHANGED unitVars

\* deleteSession had no session id to delete
StopDeleteSkipped(i) ==
  /\ Micro(i)
  /\ cmd[i].pc = "deleted"
  /\ wdaClient' = 0
  /\ StopManagerPart(i, cmd[i])
  /\ UNCHANGED << sims, mgr, client, received, issued >>
  /\ UNCHANGED unitVars

\* after the awaited stop(): state.wdaManager = null and the rest
StopManagerStopped(i) ==
  /\ Micro(i)
  /\ cmd[i].pc = "mgrStopped"
  /\ cmd[i].action = "stop-session"
  /\ mgr' = [mgr EXCEPT ![cmd[i].tgt].process = FALSE]
  /\ wdaManager' = 0
  /\ StopTail(i, cmd[i])
  /\ UNCHANGED << sims, wdaClient, child, client, received, issued >>
  /\ UNCHANGED unitVars

\* the exit timer fires: cleanup() and process.exit(0)
Exit ==
  /\ Event
  /\ exitScheduled
  /\ exited' = TRUE
  /\ UNCHANGED << sims, simulator, wdaManager, wdaClient, refStore, mgr, child,
                  client, cmd, ready, received, issued, exitScheduled >>
  /\ UNCHANGED unitVars

\* ------------------------------------------------------------------ backend client
\* a client method that starts with ensureSession(): the request kind is sent
\* once a session id is cached, after a POST /session when none is
Request(c, k, kind) ==
  IF client[k].sessionId = 0
  THEN [c EXCEPT !.cli = k, !.pc = "ensure", !.next = kind]
  ELSE [c EXCEPT !.cli = k, !.pc = kind]

\* the message a handler wraps a thrown error in
FailureKind(action) ==
  CASE action = "snapshot" -> "snapshot-failed"
    [] action = "tap" -> "tap-failed"
    [] OTHER -> "failed"

\* POST /session of ensureSession answered
EnsureResponded(i) ==
  /\ Event
  /\ cmd[i].pc = "ensure"
  /\ \E ok \in BOOLEAN :
       IF ok
       THEN /\ client' = [client EXCEPT ![cmd[i].cli] = SessionCreated(@)]
            /\ Resume(i, [cmd[i] EXCEPT !.pc = cmd[i].next])
       ELSE /\ Resume(i, Finish(cmd[i], FALSE, FailureKind(cmd[i].action)))
            /\ UNCHANGED client
  /\ UNCHANGED << sims, simulator, wdaManager, wdaClient, refStore, mgr, child, received,
                  issued, exitScheduled, exited >>
  /\ UNCHANGED unitVars

\* ------------------------------------------------------------------ snapshot
SnapshotBegin(i) ==
  /\ Micro(i)
  /\ cmd[i].pc = "dispatch"
  /\ cmd[i].action = "snapshot"
  /\ Resume(i, IF wdaClient = 0 THEN Finish(cmd[i], FALSE, "not-running")
               ELSE Request(cmd[i], wdaClient, "srcReq"))
  /\ UNCHANGED << sims, simulator, wdaManager, wdaClient, refStore, mgr, child,
                  client, received, issued, exitScheduled, exited >>
  /\ UNCHANGED unitVars

\* RefStore.set
RefStoreSet(refs, ref, entry) == (ref :> entry) @@ refs

\* for (const [ref, entry] of Object.entries(refMap)) refStore.set(ref, entry),
\* for the entries keys, starting from the table refs
RECURSIVE SetEntries(_, _, _)

SetEntries(refs, refMap, keys) ==
  IF keys = {} THEN refs
  ELSE LET ref == CHOOSE r \in keys : TRUE
       IN SetEntries(RefStoreSet(refs, ref, refMap[ref]), refMap, keys \ {ref})

\* a handleSnapshot that does not clear the table before it stores the entries
StoreRefsUncleared(refMap) == SetEntries(refStore, refMap, DOMAIN refMap)

\* a handleSnapshot that does not clear the table and stores only the entries
\* of the refs the table does not have yet
StoreRefsKeepingOld(refMap) == SetEntries(refStore, refMap, DOMAIN refMap \ DOMAIN refStore)

\* refStore.clear(), then refStore.set for every entry of snapshot.refMap
StoreRefs(refMap) == SetEntries(EmptyMap, refMap, DOMAIN refMap)

\* a handleSnapshot that clears the table before it has the parsed snapshot
SourceRespondedClearsFirst(i) ==
  /\ Event
  /\ cmd[i].pc = "srcReq"
  /\ \E ok \in BOOLEAN, xml \in Sources :
       IF ok /\ xml # NoRoot
       THEN LET snapshot == parseWDASource(xml)
            IN /\ refStore' = StoreRefs(snapshot.refMap)
               /\ issued' = issued \cup {snapshot.refMap}
               /\ Resume(i, Finish([cmd[i] EXCEPT !.data = snapshot.refMap],
                                   TRUE, "snapshot"))
       ELSE /\ Resume(i, Finish(cmd[i], FALSE, "snapshot-failed"))
            /\ refStore' = EmptyMap
            /\ UNCHANGED issued
  /\ UNCHANGED << sims, simulator, wdaManager, wdaClient, mgr, child, client,
                  received, exitScheduled, exited >>
  /\ UNCHANGED unitVars

\* GET /source answered: parse, replace the table, return the snapshot
SourceResponded(i) ==
  /\ Event
  /\ cmd[i].pc = "srcReq"
  /\ \E ok \in BOOLEAN, xml \in Sources :
       IF ok /\ xml # NoRoot
       THEN LET snapshot == parseWDASource(xml)
            IN /\ refStore' = StoreRefs(snapshot.refMap)
               /\ issued' = issued \cup {snapshot.refMap}
               /\ Resume(i, Finish([cmd[i] EXCEPT !.data = snapshot.refMap],
                                   TRUE, "snapshot"))
       ELSE /\ Resume(i, Finish(cmd[i], FALSE, "snapshot-failed"))
            /\ UNCHANGED << refStore, issued >>
  /\ UNCHANGED << sims, simulator, wdaManager, wdaClient, mgr, child, client,
                  received, exitScheduled, exited >>
  /\ UNCHANGED unitVars

\* ------------------------------------------------------------------ resolveRef, tap
\* the queries of resolveRef in their order: 1 by identifier, 2 by type and
\* label, 3 by label
Applicable(entry, k) ==
  CASE k = 1 -> entry.identifier # None
    [] k = 2 -> entry.label # None /\ entry.type # None
    [] k = 3 -> entry.label # None
    [] OTHER -> FALSE

\* a choice of the last applicable query from k on instead of the first
NextStrategyLast(entry, k) ==
  IF \E s \in k..3 : Applicable(entry, s)
  THEN CHOOSE s \in k..3 : Applicable(entry, s) /\ \A t \in (s + 1)..3 : ~Applicable(entry, t)
  ELSE 0

\* the first applicable query from k on, 0 when there is none
NextStrategy(entry, k) ==
  IF \E s \in k..3 : Applicable(entry, s)
  THEN CHOOSE s \in k..3 : Applicable(entry, s) /\ \A t \in k..(s - 1) : ~Applicable(entry, t)
  ELSE 0

\* resolveRef from query k on, for the handler record c whose finder is bound
\* to client c.cli
Resolve(c, k) ==
  LET s == NextStrategy(c.entry, k)
  IN IF s = 0 THEN Finish(c, FALSE, "not-found")
     ELSE Request([c EXCEPT !.strat = s], c.cli, "findReq")

\* handleTap up to its first await
TapBegin(i) ==
  /\ Micro(i)
  /\ cmd[i].pc = "dispatch"
  /\ cmd[i].action = "tap"
  /\ LET c == cmd[i]
     IN Resume(i,
          IF wdaClient = 0 THEN Finish(c, FALSE, "not-running")
          ELSE IF ~startsWithMarker(c.ref) THEN Finish(c, FALSE, "invalid-ref")
          ELSE IF c.ref \notin DOMAIN refStore THEN Finish(c, FALSE, "unknown-ref")
          ELSE Resolve([c EXCEPT !.cli = wdaClient, !.entry = refStore[c.ref]], 1))
  /\ UNCHANGED << sims, simulator, wdaManager, wdaClient, refStore, mgr, child,
                  client, received, issued, exitScheduled, exited >>
  /\ UNCHANGED unitVars

\* POST /element answered: an element, or none (a failed request counts as none)
FindResponded(i) ==
  /\ Event
  /\ cmd[i].pc = "findReq"
  /\ \E found \in BOOLEAN :
       Resume(i,
         IF ~found THEN Resolve(cmd[i], cmd[i].strat + 1)
         ELSE IF wdaClient = 0 THEN Finish(cmd[i], FALSE, "tap-failed")
         ELSE Request(cmd[i], wdaClient, "clickReq"))
  /\ UNCHANGED << sims, simulator, wdaManager, wdaClient, refStore, mgr, child,
                  client, received, issued, exitScheduled, exited >>
  /\ UNCHANGED unitVars

\* POST /element/:id/click answered
ClickResponded(i) ==
  /\ Event
  /\ cmd[i].pc = "clickReq"
  /\ \E ok \in BOOLEAN :
       Resume(i, IF ok THEN Finish(cmd[i], TRUE, "tap")
                 ELSE Finish(cmd[i], FALSE, "tap-failed"))
  /\ UNCHANGED << sims, simulator, wdaManager, wdaClient, refStore, mgr, child,
                  client, received, issued, exitScheduled, exited >>
  /\ UNCHANGED unitVars


\* ------------------------------------------------------------------ specification
Next ==
  \/ \E c \in Conns, lines \in Chunks : DataArrives(c, lines)
  \/ \E i \in Slots : Respond(i)
  \/ \E m \in Mgrs : ChildReady(m)
  \/ \E m \in Mgrs : ChildClose(m)
  \/ \E m \in Mgrs : StartupTimeout(m)
  \/ \E m \in Mgrs : DetachedGrace(m)
  \/ \E m \in Mgrs : DetachedReturn(m)
  \/ \E i \in Slots : GraceTimeout(i)
  \/ \E i \in Slots : StartSelect(i)
  \/ \E i \in Slots : StartBootClosed(i)
  \/ \E i \in Slots : StartOpenClosed(i)
  \/ \E i \in Slots : StartLaunch(i)
  \/ \E i \in Slots : StartStarted(i)
  \/ \E i \in Slots : StartReadyFetched(i)
  \/ \E i \in Slots : StartReadySlept(i)
  \/ \E i \in Slots : StartSessionCreated(i)
  \/ \E i \in Slots : StartCatch(i)
  \/ \E i \in Slots : StartCatchStopped(i)
  \/ \E i \in Slots : StopBegin(i)
  \/ \E i \in Slots : StopDeleteResponded(i)
  \/ \E i \in Slots : StopDeleteSkipped(i)
  \/ \E i \in Slots : StopManagerStopped(i)
  \/ \E i \in Slots : EnsureResponded(i)
  \/ \E i \in Slots : SnapshotBegin(i)
  \/ \E i \in Slots : SourceResponded(i)
  \/ \E i \in Slots : TapBegin(i)
  \/ \E i \in Slots : FindResponded(i)
  \/ \E i \in Slots : ClickResponded(i)
  \/ Exit

Spec == Init /\ [][Next]_vars

\* The steps the daemon takes by itself: a handler running on, a timer firing, a
\* backend HTTP call answered or timed out. A line arriving, the device tool
\* closing and the backend child writing or exiting are left to the outside.
TimedSteps ==
  \/ \E i \in Slots : Respond(i)
  \/ \E m \in Mgrs : StartupTimeout(m)
  \/ \E m \in Mgrs : DetachedGrace(m)
  \/ \E m \in Mgrs : DetachedReturn(m)
  \/ \E i \in Slots : GraceTimeout(i)
  \/ \E i \in Slots : StartSelect(i)
  \/ \E i \in Slots : StartLaunch(i)
  \/ \E i \in Slots : StartStarted(i)
  \/ \E i \in Slots : StartReadyFetched(i)
  \/ \E i \in Slots : StartReadySlept(i)
  \/ \E i \in Slots : StartSessionCreated(i)
  \/ \E i \in Slots : StartCatch(i)
  \/ \E i \in Slots : StartCatchStopped(i)
  \/ \E i \in Slots : StopBegin(i)
  \/ \E i \in Slots : StopDeleteResponded(i)
  \/ \E i \in Slots : StopDeleteSkipped(i)
  \/ \E i \in Slots : StopManagerStopped(i)
  \/ \E i \in Slots : EnsureResponded(i)
  \/ \E i \in Slots : SnapshotBegin(i)
  \/ \E i \in Slots : SourceResponded(i)
  \/ \E i \in Slots : TapBegin(i)
  \/ \E i \in Slots : FindResponded(i)
  \/ \E i \in Slots : ClickResponded(i)
  \/ Exit

TimedSpec == Spec /\ WF_vars(TimedSteps)

\* ------------------------------------------------------------------ parseWDASource alone
MaxNodes == 4

\* the kinds of node of the input trees: a container without attributes, a
\* node with an identifier, a node with a label
NodeKinds ==
  { Node("Other", None, None, None, <<>>),
    Node("Button", None, "login", None, <<>>),
    Node("StaticText", "Welcome", None, None, <<>>) }

\* the XMLNode trees of n nodes, and the sequences of trees of n nodes in all
RECURSIVE TreesOfSize(_)
RECURSIVE ForestsOfSize(_)

TreesOfSize(n) ==
  IF n = 0 THEN {}
  ELSE { [k EXCEPT !.children = f] : k \in NodeKinds, f \in ForestsOfSize(n - 1) }

ForestsOfSize(n) ==
  IF n = 0 THEN { <<>> }
  ELSE UNION { { <<t>> \o f : t \in TreesOfSize(k), f \in ForestsOfSize(n - k) } :
               k \in 1..n }

Trees == UNION { TreesOfSize(n) : n \in 1..MaxNodes }

RECURSIVE NodeCount(_)
RECURSIVE ForestCount(_)

ForestCount(children) ==
  IF children = <<>> THEN 0
  ELSE NodeCount(Head(children)) + ForestCount(Tail(children))

\* the number of nodes of an XMLNode tree
NodeCount(node) == 1 + ForestCount(node.children)

ParserInit ==
  /\ DaemonAtRest
  /\ RefAtRest
  /\ ChannelAtRest
  /\ xmlRoot \in Trees
  /\ parsed = NoSnapshot

\* const snapshot = parseWDASource(xml), for the root parseXML found
Parse ==
  /\ parsed = NoSnapshot
  /\ parsed' = parseWDASource(xmlRoot)
  /\ UNCHANGED << daemonVars, xmlRoot, refVars, channelVars >>

ParserNext == Parse

ParserSpec == ParserInit /\ [][ParserNext]_vars

\* ------------------------------------------------------------------ the ref-taking handlers alone
MaxPolls == 2

\* a screen with a button that has a label and an identifier
SourceD == Node("Window", None, None, None,
                << Node("Button", "Log in", "login", None, <<>>) >>)

\* the reference tables the handler may find: none stored yet, or the map of a snapshot
RefTables == { EmptyMap } \cup { parseWDASource(x).refMap : x \in { SourceA, SourceB, SourceD } }

\* the refs of the commands: issued ones, one never issued, one without the marker
CommandRefs == { RefToken(0), RefToken(1), RefToken(2), [prefix |-> "e", n |-> 1] }

RefActions == { "tap", "type", "clear", "swipe", "wait" }

\* the element handles the backend answers with
Handles == { "E1", "E2" }

\* the state of the daemon after a successful start-session
SessionActive ==
  /\ sims = << Simulator(IPhone15, "Booted") >>
  /\ simulator = 1
  /\ wdaManager = 1
  /\ wdaClient = 1
  /\ mgr = [m \in Mgrs |-> IF m = 1 THEN [created |-> TRUE, process |-> TRUE,
                                           resolved |-> TRUE, dstop |-> "none"]
                            ELSE NewManager]
  /\ child = [m \in Mgrs |-> IF m = 1 THEN [NewChild EXCEPT !.st = "run"] ELSE NewChild]
  /\ client = [m \in Mgrs |-> IF m = 1 THEN SessionCreated([NewClient EXCEPT !.created = TRUE])
                               ELSE NewClient]
  /\ cmd = [s \in Slots |-> Idle]
  /\ ready = {}
  /\ received = 0
  /\ issued = {}
  /\ exitScheduled = FALSE
  /\ exited = FALSE

\* the messages of the error responses
NotRunningMessage == [text |-> "WDA not running", suggests |-> "start-session"]
InvalidRefMessage == [text |-> "Invalid ref format", suggests |-> None]
UnknownRefMessage == [text |-> "Unknown ref", suggests |-> "snapshot"]
NotFoundMessage == [text |-> "Element not found", suggests |-> "snapshot"]
TimeoutMessage == [text |-> "Timeout waiting", suggests |-> None]
FailedMessage == [text |-> "Failed", suggests |-> None]
NoMessage == [text |-> None, suggests |-> None]

RefInit ==
  /\ ParserAtRest
  /\ ChannelAtRest
  /\ \/ DaemonAtRest
     \/ SessionActive /\ refStore \in RefTables
  /\ \E a \in RefActions, r \in CommandRefs, alert \in BOOLEAN :
       handler = [action |-> a, ref |-> r, pc |-> "dispatch", entry |-> NoEntry,
                  strat |-> 0, polls |-> 0, elementId |-> None,
                  ok |-> FALSE, error |-> NoMessage,
                  alert |-> alert]    \* the device shows a system alert meanwhile
  /\ calls = <<>>

\* refStore.get(ref)
Get(ref) == [kind |-> "get", using |-> None, value |-> << ref >>, answer |-> None]

\* findElement(using, value) of query k of resolveRef
Query(entry, k) ==
  CASE k = 1 -> [kind |-> "find", using |-> "accessibility id",
                 value |-> << entry.identifier >>, answer |-> None]
    [] k = 2 -> [kind |-> "find", using |-> "predicate string",
                 value |-> << "type", entry.type, "label", entry.label >>, answer |-> None]
    [] OTHER -> [kind |-> "find", using |-> "predicate string",
                 value |-> << "label", entry.label >>, answer |-> None]

\* click, type, clear or swipe on the element
ElementAction(action, elementId) ==
  [kind |-> action, using |-> None, value |-> << elementId >>, answer |-> None]

\* return errorResponse(id, message) / return successResponse(id, ...)
ReturnError(h, message) == [h EXCEPT !.pc = "done", !.ok = FALSE, !.error = message]
ReturnSuccess(h) == [h EXCEPT !.pc = "done", !.ok = TRUE]

\* resolveRef throws: the catch of handleTap, handleType, handleClear and
\* handleSwipe returns the message; the catch of handleWait goes on to the sleep
Thrown(h, message) ==
  IF h.action = "wait" THEN [h EXCEPT !.pc = "sleep"] ELSE ReturnError(h, message)

\* a resolveRef that remembers that its queries found nothing and does not ask
\* the backend again
QueryFromRemembered(h, k, cs) ==
  LET s == IF h.polls > 1 THEN 0 ELSE NextStrategy(h.entry, k)
  IN IF s = 0
     THEN handler' = Thrown(h, NotFoundMessage) /\ calls' = cs
     ELSE /\ handler' = [h EXCEPT !.strat = s, !.pc = "findReq"]
          /\ calls' = Append(cs, Query(h.entry, s))

\* resolveRef from query k on, cs being the calls made so far
QueryFrom(h, k, cs) ==
  LET s == NextStrategy(h.entry, k)
  IN IF s = 0
     THEN handler' = Thrown(h, NotFoundMessage) /\ calls' = cs
     ELSE /\ handler' = [h EXCEPT !.strat = s, !.pc = "findReq"]
          /\ calls' = Append(cs, Query(h.entry, s))

\* a resolveRef that queries the backend with an empty descriptor when the ref
\* is not in the table
resolveRefNoEntryCheck(h, cs) ==
  IF ~startsWithMarker(h.ref)
  THEN handler' = Thrown(h, InvalidRefMessage) /\ calls' = cs
  ELSE LET got == Append(cs, Get(h.ref))
           entry == IF h.ref \in DOMAIN refStore THEN refStore[h.ref]
                    ELSE [NoEntry EXCEPT !.identifier = "undefined"]
       IN QueryFrom([h EXCEPT !.entry = entry], 1, got)

\* resolveRef up to its first await
resolveRef(h, cs) ==
  IF ~startsWithMarker(h.ref)
  THEN handler' = Thrown(h, InvalidRefMessage) /\ calls' = cs
  ELSE LET got == Append(cs, Get(h.ref))
       IN IF h.ref \notin DOMAIN refStore
          THEN handler' = Thrown(h, UnknownRefMessage) /\ calls' = got
          ELSE QueryFrom([h EXCEPT !.entry = refStore[h.ref]], 1, got)

\* the head of the loop of handleWait: Date.now() - startTime < timeout
WaitLoop(h, cs) ==
  \E inTime \in BOOLEAN :
    IF inTime /\ h.polls < MaxPolls
    THEN resolveRef([h EXCEPT !.polls = @ + 1], cs)
    ELSE handler' = ReturnError(h, TimeoutMessage) /\ calls' = cs

\* handleTap, handleType, handleClear, handleSwipe, handleWait up to the first await
RefBegin ==
  /\ handler.pc = "dispatch"
  /\ IF wdaClient = 0
     THEN handler' = ReturnError(handler, NotRunningMessage) /\ calls' = calls
     ELSE IF handler.action = "wait"
     THEN LET got == Append(calls, Get(handler.ref))
          IN IF handler.ref \notin DOMAIN refStore
             THEN handler' = ReturnError(handler, UnknownRefMessage) /\ calls' = got
             ELSE WaitLoop(handler, got)
     ELSE resolveRef(handler, calls)
  /\ UNCHANGED << daemonVars, parserVars, channelVars >>

\* a found element that is returned only by the last query of resolveRef
AfterFoundLast(h, cs, answer) ==
  IF h.strat < 3 THEN QueryFrom(h, h.strat + 1, cs)
  ELSE IF h.action = "wait"
  THEN handler' = ReturnSuccess([h EXCEPT !.elementId = answer]) /\ calls' = cs
  ELSE /\ handler' = [h EXCEPT !.elementId = answer, !.pc = "actionReq"]
       /\ calls' = Append(cs, ElementAction(h.action, answer))

\* if (element) return element.ELEMENT: handleWait returns success, the others
\* send their request on the element
AfterFound(h, cs, answer) ==
  IF h.action = "wait"
  THEN handler' = ReturnSuccess([h EXCEPT !.elementId = answer]) /\ calls' = cs
  ELSE /\ handler' = [h EXCEPT !.elementId = answer, !.pc = "actionReq"]
       /\ calls' = Append(cs, ElementAction(h.action, answer))

\* findElement returns: an element, or null (no element, or the request failed)
FindAnswered ==
  /\ handler.pc = "findReq"
  /\ \E answer \in Handles \cup { None } :
       LET cs == [calls EXCEPT ![Len(calls)].answer = answer]
       IN IF answer # None THEN AfterFound(handler, cs, answer)
          ELSE QueryFrom(handler, handler.strat + 1, cs)
  /\ UNCHANGED << daemonVars, parserVars, channelVars >>

\* the request on the element is answered
ActionAnswered ==
  /\ handler.pc = "actionReq"
  /\ \E ok \in BOOLEAN :
       handler' = IF ok THEN ReturnSuccess(handler) ELSE ReturnError(handler, FailedMessage)
  /\ UNCHANGED << daemonVars, parserVars, channelVars, calls >>

\* the poll interval of handleWait elapsed
WaitSlept ==
  /\ handler.pc = "sleep"
  /\ WaitLoop(handler, calls)
  /\ UNCHANGED << daemonVars, parserVars, channelVars >>

RefNext ==
  \/ RefBegin
  \/ FindAnswered
  \/ ActionAnswered
  \/ WaitSlept

RefSpec == RefInit /\ [][RefNext]_vars

\* ------------------------------------------------------------------ the command channel alone
MaxLines == 3

\* JSON values: strings and numbers
Str(s) == [t |-> "string", v |-> s]
Num(s) == [t |-> "number", v |-> s]

Actions ==
  { "start-session", "stop-session", "status", "list-sims", "snapshot", "screenshot",
    "tap", "type", "clear", "swipe", "wait", "alert-accept", "alert-dismiss",
    "alert-button", "launch", "terminate", "install" }

Directions == { "up", "down", "left", "right" }

\* the keys a command schema requires besides id and action, and those it allows
RequiredKeys(action) ==
  CASE action \in { "tap", "clear", "wait" } -> { "ref" }
    [] action = "type" -> { "ref", "text" }
    [] action = "swipe" -> { "ref", "direction" }
    [] action = "alert-button" -> { "button" }
    [] action \in { "launch", "terminate" } -> { "bundleId" }
    [] action = "install" -> { "appPath" }
    [] OTHER -> {}

OptionalKeys(action) ==
  CASE action = "start-session" -> { "sim" }
    [] action = "screenshot" -> { "out" }
    [] action = "wait" -> { "timeout" }
    [] OTHER -> {}

\* z.string(), z.number(), z.enum([...]) of the key
KeyOk(key, val) ==
  CASE key = "timeout" -> val.t = "number"
    [] key = "direction" -> val.t = "string" /\ val.v \in Directions
    [] OTHER -> val.t = "string"

NoCommand == [success |-> FALSE, data |-> EmptyMap]

\* CommandSchema.safeParse(parsed): the data keeps the keys of the schema only
safeParse(obj) ==
  LET keys == DOMAIN obj
      action == obj["action"].v
      valid ==
        /\ "action" \in keys
        /\ obj["action"].t = "string"
        /\ action \in Actions
        /\ "id" \in keys
        /\ obj["id"].t = "string"
        /\ \A k \in RequiredKeys(action) : k \in keys /\ KeyOk(k, obj[k])
        /\ \A k \in OptionalKeys(action) \cap keys : KeyOk(k, obj[k])
  IN IF valid
     THEN [success |-> TRUE,
           data |-> [k \in { "id", "action" } \cup RequiredKeys(action)
                              \cup (OptionalKeys(action) \cap keys) |-> obj[k]]]
     ELSE NoCommand

\* parseCommand: null when JSON.parse throws or the schema rejects the value
parseCommand(line) ==
  IF line.text # "json" \/ ~line.isObject THEN NoCommand ELSE safeParse(line.obj)

\* the lines of this model
SampleValue(key) ==
  CASE key = "direction" -> Str("up")
    [] key = "timeout" -> Num("5000")
    [] key = "ref" -> Str("@e1")
    [] OTHER -> Str("x")

Object(action, id, keys) ==
  [k \in { "id", "action" } \cup keys |->
     CASE k = "id" -> id
       [] k = "action" -> Str(action)
       [] OTHER -> SampleValue(k)]

JsonLine(obj) == [text |-> "json", isObject |-> TRUE, obj |-> obj]

Ids == { "a", "b" }

ValidLines ==
  { JsonLine(Object(a, Str(i), RequiredKeys(a))) : a \in Actions, i \in Ids }
    \cup { JsonLine(Object(a, Str("a"), RequiredKeys(a) \cup OptionalKeys(a))) :
           a \in { "start-session", "screenshot", "wait" } }
    \cup { JsonLine(Object("status", Str("b"), { "verbose" })) }

InvalidLines ==
  { [text |-> "garbage", isObject |-> FALSE, obj |-> EmptyMap],
    [text |-> "json", isObject |-> FALSE, obj |-> EmptyMap],
    JsonLine(Object("reboot", Str("a"), {})),
    JsonLine([id |-> Str("a")]),
    JsonLine([action |-> Str("status")]),
    JsonLine(Object("status", Num("7"), {})),
    JsonLine(Object("tap", Str("a"), {})),
    JsonLine([Object("tap", Str("a"), { "ref" }) EXCEPT !["ref"] = Num("1")]),
    JsonLine([Object("swipe", Str("a"), { "ref", "direction" }) EXCEPT
                !["direction"] = Str("diagonal")]),
    JsonLine([Object("wait", Str("a"), { "ref", "timeout" }) EXCEPT
                !["timeout"] = Str("5000")]) }

\* a line of white space only
BlankLine == [text |-> "blank", isObject |-> FALSE, obj |-> EmptyMap]

Lines == ValidLines \cup InvalidLines \cup { BlankLine }

successResponse(id) == [id |-> id, success |-> TRUE, error |-> None]
\* an error response that loses the id of its command
errorResponseUnknown(id, error) == [id |-> "unknown", success |-> FALSE, error |-> error]

errorResponse(id, error) == [id |-> id, success |-> FALSE, error |-> error]

\* the response of processCommand to a line that is no command
InvalidResponse == [id |-> "unknown", success |-> FALSE, error |-> "Invalid command format"]

\* the collaborator calls of each handler, in their order, with what a failure
\* of the call leads to: the error response of the handler, or nothing (the
\* failure is caught where the call is made and the handler goes on: the
\* deleteSession of stop-session, the probes of status, findElement, which
\* answers null, and the poll of wait)
Call(collab, onFailure) == [collab |-> collab, onFailure |-> onFailure]

HandlerCalls(action, data) ==
  CASE action = "start-session" ->
         << Call("device tool", "error"), Call("backend process", "error"),
            Call("backend RPC", "error") >>
    [] action = "stop-session" ->
         IF wdaClient # 0 THEN << Call("backend RPC", "absorbed") >> ELSE << >>
    [] action = "status" ->
         << Call("device tool", "absorbed") >>
           \o (IF wdaManager # 0 THEN << Call("backend process", "absorbed") >> ELSE << >>)
    [] action \in { "list-sims", "install" } -> << Call("device tool", "error") >>
    [] action = "screenshot" ->
         << Call("backend RPC", "error") >>
           \o (IF "out" \in DOMAIN data THEN << Call("file write", "error") >> ELSE << >>)
    [] action \in { "snapshot", "launch", "terminate" } -> << Call("backend RPC", "error") >>
    [] action = "wait" -> << Call("backend RPC", "absorbed") >>
    [] action \in { "tap", "type", "clear", "swipe" } ->
         << Call("backend RPC", "absorbed"), Call("backend RPC", "error") >>
    [] action = "alert-button" ->
         << Call("backend RPC", "error"), Call("backend RPC", "absorbed"),
            Call("backend RPC", "absorbed"), Call("backend RPC", "error") >>
    [] OTHER -> << Call("backend RPC", "error"), Call("backend RPC", "error") >>

\* a guard on state.wdaClient that the handlers of the alerts and of the
\* applications lack
NeedsClientForElements(action) ==
  action \in { "snapshot", "screenshot", "tap", "type", "clear", "swipe", "wait" }

\* the handlers that return an error when state.wdaClient is null, the one that
\* does when state.simulator is null
NeedsClient(action) ==
  action \in { "snapshot", "screenshot", "tap", "type", "clear", "swipe", "wait",
               "alert-accept", "alert-dismiss", "alert-button", "launch", "terminate" }

NeedsSimulator(action) == action = "install"

\* the handlers that return an error of their own with no collaborator failing:
\* no device, unknown ref, element not found, wait timed out, no alert
MayDecline(action) ==
  action \in { "start-session", "tap", "type", "clear", "swipe", "wait",
               "alert-accept", "alert-dismiss", "alert-button" }

ChannelInit ==
  /\ sims = << Simulator(IPhone15, "Booted") >>
  /\ Constructed
  /\ ParserAtRest
  /\ RefAtRest
  /\ ChannelAtRest

\* no continuation of a data listener is in the microtask queue
ChannelEvent == ~exited /\ \A i \in Runs : pending[i].pc \notin { "line", "respond" }

FreeRun ==
  CHOOSE i \in Runs : pending[i].pc = "none" /\ \A j \in Runs : pending[j].pc = "none" => i <= j

\* the for-loop of the data listener goes on to the next line of its chunk
Continue(i, r) ==
  IF r.rest > 0
  THEN \E line \in Lines :
         pending' = [pending EXCEPT ![i] = [NoRun EXCEPT !.pc = "line", !.line = line,
                                                          !.rest = r.rest - 1,
                                                          !.afterInvalid = r.afterInvalid]]
  ELSE pending' = [pending EXCEPT ![i] = NoRun]

\* socket.on("data"): k complete lines, and maybe the beginning of another one
ChannelData ==
  /\ ChannelEvent
  /\ \E k \in 0..MaxChunk, tail \in BOOLEAN :
       /\ arrived + k <= MaxLines
       /\ k = 0 => tail
       /\ buffered' = tail
       /\ arrived' = arrived + k
       /\ IF k = 0 THEN UNCHANGED pending
          ELSE /\ \E i \in Runs : pending[i].pc = "none"
               /\ \E line \in Lines :
                    pending' = [pending EXCEPT ![FreeRun] =
                                  [NoRun EXCEPT !.pc = "line", !.line = line, !.rest = k - 1]]
  /\ UNCHANGED << handled, writes, out, daemonVars, parserVars, refVars >>

\* a processCommand that drops a line that is no command without a response
RejectSilently(i, r) ==
  /\ Continue(i, [r EXCEPT !.afterInvalid = TRUE])
  /\ UNCHANGED << handled, writes, out >>

\* processCommand for a line that is no command
Reject(i, r) ==
  /\ writes' = writes + 1
  /\ out' = InvalidResponse
  /\ Continue(i, [r EXCEPT !.afterInvalid = TRUE])
  /\ UNCHANGED handled

\* one turn of the for-loop: a blank line is skipped, any other line goes to
\* processCommand, which answers it or calls the handler
TakeLine(i) ==
  /\ ~exited
  /\ pending[i].pc = "line"
  /\ LET r == pending[i]
         command == parseCommand(r.line)
     IN IF r.line.text = "blank"
        THEN Continue(i, r) /\ UNCHANGED << handled, writes, out >>
        ELSE IF ~command.success
        THEN Reject(i, r)
        ELSE /\ handled' = handled + 1
             /\ pending' = [pending EXCEPT ![i] =
                              [r EXCEPT !.pc = "handling", !.id = command.data["id"].v,
                                        !.action = command.data["action"].v]]
             /\ UNCHANGED << writes, out >>
  /\ UNCHANGED << buffered, arrived, daemonVars, parserVars, refVars >>

\* what the handler that settles did to the session state; f is the call that
\* failed, 0 when none did
Effect(action, success, f) ==
  CASE action = "start-session" /\ success ->
         /\ simulator' = 1 /\ wdaManager' = 1 /\ wdaClient' = 1
         /\ UNCHANGED << refStore, exitScheduled >>
    [] action = "start-session" /\ ~success /\ f > 1 ->
         /\ simulator' = 1 /\ wdaManager' = 0 /\ wdaClient' = 0
         /\ UNCHANGED << refStore, exitScheduled >>
    [] action = "stop-session" ->
         /\ simulator' = 0 /\ wdaManager' = 0 /\ wdaClient' = 0
         /\ refStore' = EmptyMap
         /\ exitScheduled' = TRUE
    [] action = "snapshot" /\ success ->
         /\ refStore' = StoreRefs(parseWDASource(SourceA).refMap)
         /\ UNCHANGED << simulator, wdaManager, wdaClient, exitScheduled >>
    [] OTHER -> UNCHANGED << simulator, wdaManager, wdaClient, refStore, exitScheduled >>

\* the handler returns: the error of its guard, or what its calls led to
HandlerSettles(i) ==
  /\ ChannelEvent
  /\ pending[i].pc = "handling"
  /\ LET r == pending[i]
         cs == HandlerCalls(r.action, parseCommand(r.line).data)
     IN IF \/ NeedsClient(r.action) /\ wdaClient = 0
           \/ NeedsSimulator(r.action) /\ simulator = 0
        THEN /\ pending' = [pending EXCEPT ![i] =
                              [r EXCEPT !.pc = "respond",
                                        !.resp = errorResponse(r.id, "not running")]]
             /\ UNCHANGED << simulator, wdaManager, wdaClient, refStore, exitScheduled >>
        ELSE \E f \in 0..Len(cs), declines \in BOOLEAN :
               LET resp == IF f # 0 /\ cs[f].onFailure = "error"
                           THEN errorResponse(r.id, "Failed")
                           ELSE IF declines /\ MayDecline(r.action)
                           THEN errorResponse(r.id, "declined")
                           ELSE successResponse(r.id)
               IN /\ pending' = [pending EXCEPT ![i] =
                                   [r EXCEPT !.pc = "respond", !.failed = f, !.resp = resp]]
                  /\ Effect(r.action, resp.success, f)
  /\ UNCHANGED << sims, mgr, child, client, cmd, ready, received, issued, exited >>
  /\ UNCHANGED << buffered, arrived, handled, writes, out, parserVars, refVars >>

\* a processCommand without its catch: the rejection of the handler ends the
\* run of the listener
ThrowEscapes(i) ==
  /\ ChannelEvent
  /\ pending[i].pc = "handling"
  /\ pending' = [pending EXCEPT ![i] = NoRun]
  /\ UNCHANGED << buffered, arrived, handled, writes, out, daemonVars, parserVars, refVars >>

\* the handler rejects: the catch of processCommand makes the error response
HandlerThrows(i) ==
  /\ ChannelEvent
  /\ pending[i].pc = "handling"
  /\ pending' = [pending EXCEPT ![i] =
                   [pending[i] EXCEPT !.pc = "respond",
                      !.resp = [id |-> pending[i].id, success |-> FALSE, error |-> "thrown"]]]
  /\ UNCHANGED << buffered, arrived, handled, writes, out, daemonVars, parserVars, refVars >>

\* socket.write(JSON.stringify(response) + "\n"), then the loop goes on
WriteResponse(i) ==
  /\ ~exited
  /\ pending[i].pc = "respond"
  /\ writes' = writes + 1
  /\ out' = pending[i].resp
  /\ Continue(i, pending[i])
  /\ UNCHANGED << buffered, arrived, handled, daemonVars, parserVars, refVars >>

\* the exit timer of handleStopSession fires
ChannelExit ==
  /\ ChannelEvent
  /\ exitScheduled
  /\ exited' = TRUE
  /\ UNCHANGED << sims, simulator, wdaManager, wdaClient, refStore, mgr, child, client,
                  cmd, ready, received, issued, exitScheduled >>
  /\ UNCHANGED unitVars

ChannelNext ==
  \/ ChannelData
  \/ \E i \in Runs : TakeLine(i)
  \/ \E i \in Runs : HandlerSettles(i)
  \/ \E i \in Runs : HandlerThrows(i)
  \/ \E i \in Runs : WriteResponse(i)
  \/ ChannelExit

ChannelSpec == ChannelInit /\ [][ChannelNext]_vars

\* ------------------------------------------------------------------ handleStatus alone
\* the states status is asked in: no session (whatever the device tool lists),
\* a device selected by a start-session that failed afterwards, an active
\* session with or without a remote session id
StatusStates ==
  \/ /\ sims \in SimWorlds \cup { << Simulator(IPhone15, "Booted") >> }
     /\ Constructed
  \/ /\ sims = << Simulator(IPhone15, "Booted") >>
     /\ simulator = 1
     /\ wdaManager = 0
     /\ wdaClient = 0
     /\ refStore = EmptyMap
     /\ mgr = [m \in Mgrs |-> NewManager]
     /\ child = [m \in Mgrs |-> NewChild]
     /\ client = [m \in Mgrs |-> NewClient]
     /\ cmd = [s \in Slots |-> Idle]
     /\ ready = {}
     /\ received = 0
     /\ issued = {}
     /\ exitScheduled = FALSE
     /\ exited = FALSE
  \/ /\ \E hasSession \in BOOLEAN :
          client = [m \in Mgrs |->
                      IF m # 1 THEN NewClient
                      ELSE IF hasSession THEN SessionCreated([NewClient EXCEPT !.created = TRUE])
                      ELSE [NewClient EXCEPT !.created = TRUE]]
     /\ sims = << Simulator(IPhone15, "Booted") >>
     /\ simulator = 1
     /\ wdaManager = 1
     /\ wdaClient = 1
     /\ refStore \in RefTables
     /\ mgr = [m \in Mgrs |-> IF m = 1 THEN [created |-> TRUE, process |-> TRUE,
                                              resolved |-> TRUE, dstop |-> "none"]
                               ELSE NewManager]
     /\ child = [m \in Mgrs |-> IF m = 1 THEN [NewChild EXCEPT !.st = "run"] ELSE NewChild]
     /\ cmd = [s \in Slots |-> Idle]
     /\ ready = {}
     /\ received = 0
     /\ issued = {}
     /\ exitScheduled = FALSE
     /\ exited = FALSE

StatusInit ==
  /\ ParserAtRest
  /\ ChannelAtRest
  /\ StatusStates
  /\ \E id \in { "a", "b" } :
       handler = [action |-> "status", id |-> id, pc |-> "dispatch", booted |-> 0,
                  wdaRunning |-> FALSE, ok |-> FALSE, simulator |-> 0, wda |-> 0]
  /\ calls = <<>>

\* a probe of handleStatus and how it ended
Probe(collab, outcome) == [kind |-> "probe", collab |-> collab, outcome |-> outcome]

\* return successResponse(id, { simulator: state.simulator, wda: state.wdaManager
\* with running, bootedSimulator: booted })
StatusReturns(h, wdaRunning) ==
  [h EXCEPT !.pc = "done", !.ok = TRUE, !.wdaRunning = wdaRunning,
            !.simulator = simulator, !.wda = wdaManager]

\* handleStatus up to its await: getBootedSimulator() in its try/catch, then
\* isRunning() when there is a supervisor
StatusBegin ==
  /\ handler.action = "status"
  /\ handler.pc = "dispatch"
  /\ \E toolOk \in BOOLEAN :
       LET h == [handler EXCEPT !.booted = IF toolOk THEN getBootedSimulator(sims) ELSE 0]
           cs == Append(calls, Probe("device tool", IF toolOk THEN "ok" ELSE "threw"))
       IN IF wdaManager # 0
          THEN /\ handler' = [h EXCEPT !.pc = "isRunning"]
               /\ calls' = Append(cs, Probe("backend", None))
          ELSE /\ handler' = StatusReturns(h, FALSE)
               /\ calls' = cs
  /\ UNCHANGED << daemonVars, parserVars, channelVars >>

\* an isRunning that asks through the backend client, which creates a remote
\* session first
StatusIsRunningEnsuring ==
  /\ handler.action = "status"
  /\ handler.pc = "isRunning"
  /\ \E outcome \in { "ok", "not ok", "unreachable" } :
       /\ handler' = StatusReturns(handler, outcome = "ok")
       /\ calls' = [calls EXCEPT ![Len(calls)].outcome = outcome]
  /\ client' = [client EXCEPT ![wdaManager] = SessionCreated(@)]
  /\ UNCHANGED << sims, simulator, wdaManager, wdaClient, refStore, mgr, child, cmd, ready,
                  received, issued, exitScheduled, exited >>
  /\ UNCHANGED << parserVars, channelVars >>

\* WDAManager.isRunning settles: response.ok of GET /status, false when the
\* fetch failed or timed out
StatusIsRunning ==
  /\ handler.action = "status"
  /\ handler.pc = "isRunning"
  /\ \E outcome \in { "ok", "not ok", "unreachable" } :
       /\ handler' = StatusReturns(handler, outcome = "ok")
       /\ calls' = [calls EXCEPT ![Len(calls)].outcome = outcome]
  /\ UNCHANGED << daemonVars, parserVars, channelVars >>

StatusNext ==
  \/ StatusBegin
  \/ StatusIsRunning

StatusSpec == StatusInit /\ [][StatusNext]_vars

\* ------------------------------------------------------------------ the polling of handleWait alone
\* Time is counted in ticks of 250 ms. The backend answers at once: time
\* passes only in the sleep of the loop, which lasts pollInterval.
pollInterval == 2
MaxTimeout == 5

\* for each tick, whether resolveRef finds the element of the ref at that time
Visibilities == [0..MaxTimeout -> BOOLEAN]

WaitInit ==
  /\ ParserAtRest
  /\ ChannelAtRest
  /\ SessionActive
  /\ refStore = parseWDASource(SourceD).refMap
  /\ \E timeout \in 0..MaxTimeout, visible \in Visibilities :
       handler = [action |-> "wait", ref |-> RefToken(1), pc |-> "loop", startTime |-> 0,
                  now |-> 0, timeout |-> timeout, visible |-> visible,
                  ok |-> FALSE, found |-> FALSE, elapsed |-> 0, error |-> NoMessage]
  /\ calls = <<>>

\* one resolveRef of the loop and what it gave
Poll(at, found) == [kind |-> "poll", at |-> at, found |-> found]

\* the head and the body of the loop: while (Date.now() - startTime < timeout),
\* resolveRef, success with the elapsed time when an element id came back
WaitPoll ==
  /\ handler.action = "wait"
  /\ handler.pc = "loop"
  /\ IF handler.now - handler.startTime < handler.timeout
     THEN LET found == handler.visible[handler.now]
          IN /\ calls' = Append(calls, Poll(handler.now, found))
             /\ handler' = IF found
                           THEN [handler EXCEPT !.pc = "done", !.ok = TRUE, !.found = TRUE,
                                                !.elapsed = handler.now - handler.startTime]
                           ELSE [handler EXCEPT !.pc = "sleep"]
     ELSE /\ handler' = [handler EXCEPT !.pc = "done", !.ok = FALSE,
                                        !.error = TimeoutMessage]
          /\ calls' = calls
  /\ UNCHANGED << daemonVars, parserVars, channelVars >>

\* a sleep that lasts three times the poll interval
WaitSleepsLong ==
  /\ handler.action = "wait"
  /\ handler.pc = "sleep"
  /\ handler' = [handler EXCEPT !.pc = "loop", !.now = @ + 3 * pollInterval]
  /\ UNCHANGED << daemonVars, parserVars, channelVars, calls >>

\* await new Promise((resolve) => setTimeout(resolve, pollInterval))
WaitSleeps ==
  /\ handler.action = "wait"
  /\ handler.pc = "sleep"
  /\ handler' = [handler EXCEPT !.pc = "loop", !.now = @ + pollInterval]
  /\ UNCHANGED << daemonVars, parserVars, channelVars, calls >>

WaitNext ==
  \/ WaitPoll
  \/ WaitSleeps

WaitSpec == WaitInit /\ [][WaitNext]_vars

\* ------------------------------------------------------------------ the backend client alone
ClientOps ==
  { "createSession", "deleteSession", "getSource", "screenshot", "findElement",
    "click", "type", "clear", "getAlertText" }

\* the body texts of the non-success responses of this model
Bodies == { "no such element", "invalid session id" }

\* what fetch gives: a success response, a non-success response with its status
\* and body, or a rejection (network error, timeout)
Responses ==
  { [ok |-> TRUE, status |-> "200", body |-> "value"] }
    \cup [ok : { FALSE }, status : { "404", "500" }, body : Bodies]
    \cup { [ok |-> FALSE, status |-> None, body |-> None] }

\* the end of one call of request(): the parsed data, or the error thrown;
\* for a non-success response the message is made of the status and the body
request(response) ==
  IF response.status = None
  THEN [threw |-> TRUE, message |-> << "fetch failed" >>]
  ELSE IF ~response.ok
  THEN [threw |-> TRUE, message |-> << "WDA request failed: ", response.status, response.body >>]
  ELSE [threw |-> FALSE, message |-> << >>]

ClientInit ==
  /\ ParserAtRest
  /\ ChannelAtRest
  /\ DaemonAtRest
  /\ \E op \in ClientOps, cached \in BOOLEAN :
       handler = [action |-> op, pc |-> "call", sessionId |-> IF cached THEN 1 ELSE 0,
                  threw |-> FALSE, message |-> << >>, value |-> None]
  /\ calls = <<>>

Sent(method) == [kind |-> "request", method |-> method, response |-> None]

\* the method up to its first await: ensureSession() creates a session when
\* none is cached; deleteSession does nothing without a session
ClientBegin ==
  /\ handler.action \in ClientOps
  /\ handler.pc = "call"
  /\ IF handler.action = "deleteSession" /\ handler.sessionId = 0
     THEN handler' = [handler EXCEPT !.pc = "done"] /\ calls' = calls
     ELSE IF handler.action \notin { "createSession", "deleteSession" } /\ handler.sessionId = 0
     THEN /\ handler' = [handler EXCEPT !.pc = "ensure"]
          /\ calls' = Append(calls, Sent("createSession"))
     ELSE /\ handler' = [handler EXCEPT !.pc = "request"]
          /\ calls' = Append(calls, Sent(handler.action))
  /\ UNCHANGED << daemonVars, parserVars, channelVars >>

\* POST /session of ensureSession is answered: its error leaves the method,
\* also that of findElement and getAlertText, whose try begins after it
ClientEnsured ==
  /\ handler.action \in ClientOps
  /\ handler.pc = "ensure"
  /\ \E response \in Responses :
       LET r == request(response)
       IN /\ calls' = [calls EXCEPT ![Len(calls)].response = response]
               \o (IF r.threw THEN << >> ELSE << Sent(handler.action) >>)
          /\ handler' = IF r.threw
                        THEN [handler EXCEPT !.pc = "done", !.threw = TRUE,
                                             !.message = r.message]
                        ELSE [handler EXCEPT !.pc = "request", !.sessionId = 1]
  /\ UNCHANGED << daemonVars, parserVars, channelVars >>

\* what the method does with the end of its request
Settled(h, r) ==
  IF h.action \in { "findElement", "getAlertText" }
  THEN [h EXCEPT !.pc = "done", !.value = IF r.threw THEN "null" ELSE "value"]
  ELSE IF h.action = "deleteSession"
  THEN [h EXCEPT !.pc = "done", !.sessionId = 0]
  ELSE IF r.threw
  THEN [h EXCEPT !.pc = "done", !.threw = TRUE, !.message = r.message]
  ELSE [h EXCEPT !.pc = "done", !.value = "value",
                 !.sessionId = IF h.action = "createSession" THEN 1 ELSE @]

\* the request of the method is answered
ClientResponded ==
  /\ handler.action \in ClientOps
  /\ handler.pc = "request"
  /\ \E response \in Responses :
       /\ calls' = [calls EXCEPT ![Len(calls)].response = response]
       /\ handler' = Settled(handler, request(response))
  /\ UNCHANGED << daemonVars, parserVars, channelVars >>

ClientNext ==
  \/ ClientBegin
  \/ ClientEnsured
  \/ ClientResponded

ClientSpec == ClientInit /\ [][ClientNext]_vars

\* ------------------------------------------------------------------ one supervisor alone
\* One WDAManager and the start() and stop() calls made on it.  child[c] is the
\* c-th process it spawned; the supervisor itself is the record in handler:
\* process is the handle this.process (0: null), resolved[c] the flag of the
\* start() that spawned c, stops the stop() calls.
MaxStartCalls == 3
MaxStops == 2

StopCalls == 1..MaxStops

\* on: the process the call sent SIGTERM to and waits on; killed: the one its
\* grace timer sent SIGKILL to
NoStop == [pc |-> "none", on |-> 0, killed |-> 0]

\* the start() calls kept in calls: whether the project of the backend was on
\* disk, what the call threw before it returned its promise, the remediation
\* text of the message, the child it spawned
AlreadyRunning(artifacts) ==
  [artifacts |-> artifacts, threw |-> "WDA is already running", remedy |-> None, child |-> 0]
NotFound ==
  [artifacts |-> FALSE, threw |-> "WebDriverAgent not found",
   remedy |-> "Clone it with: git clone ... or set WDA_PATH environment variable.",
   child |-> 0]
Spawned(c) == [artifacts |-> TRUE, threw |-> None, remedy |-> None, child |-> c]

ManagerInit ==
  /\ ParserAtRest
  /\ ChannelAtRest
  /\ DaemonAtRest
  /\ handler = [action |-> "supervisor", process |-> 0, spawned |-> 0,
                resolved |-> [c \in Mgrs |-> FALSE],
                stops |-> [s \in StopCalls |-> NoStop]]
  /\ calls = <<>>

\* a signal sent through the handle
Kill(h, sig) ==
  IF h.process # 0 /\ child[h.process].st = "run"
  THEN [child EXCEPT ![h.process].term = @ \/ sig = "SIGTERM",
                     ![h.process].kill = @ \/ sig = "SIGKILL"]
  ELSE child

\* a start() without its guard on this.process
MgrStartUnguarded ==
  /\ handler.action = "supervisor"
  /\ Len(calls) < MaxStartCalls
  /\ \E artifacts \in BOOLEAN, launch \in { "run", "zombie" } :
       IF ~artifacts
       THEN /\ calls' = Append(calls, NotFound)
            /\ UNCHANGED << handler, child >>
       ELSE /\ handler.spawned < MaxStarts
            /\ LET c == handler.spawned + 1
               IN /\ handler' = [handler EXCEPT !.process = c, !.spawned = c,
                                                !.resolved[c] = launch = "zombie"]
                  /\ child' = [child EXCEPT ![c].st = launch]
                  /\ calls' = Append(calls, Spawned(c))
  /\ UNCHANGED << sims, simulator, wdaManager, wdaClient, refStore, mgr, client, cmd, ready,
                  received, issued, exitScheduled, exited >>
  /\ UNCHANGED << parserVars, channelVars >>

\* a start() that spawns before it looks for the build artifacts
MgrStartSpawnsFirst ==
  /\ handler.action = "supervisor"
  /\ Len(calls) < MaxStartCalls
  /\ \E artifacts \in BOOLEAN, launch \in { "run", "zombie" } :
       IF handler.process # 0
       THEN /\ calls' = Append(calls, AlreadyRunning(artifacts))
            /\ UNCHANGED << handler, child >>
       ELSE /\ handler.spawned < MaxStarts
            /\ LET c == handler.spawned + 1
               IN /\ handler' = [handler EXCEPT !.process = c, !.spawned = c,
                                                !.resolved[c] = launch = "zombie"]
                  /\ child' = [child EXCEPT ![c].st = launch]
                  /\ calls' = Append(calls, [Spawned(c) EXCEPT !.artifacts = artifacts])
  /\ UNCHANGED << sims, simulator, wdaManager, wdaClient, refStore, mgr, client, cmd, ready,
                  received, issued, exitScheduled, exited >>
  /\ UNCHANGED << parserVars, channelVars >>

\* start() up to the return of its promise: the guard, checkWDAExists(), the
\* spawn; a spawn that fails gives the "error" event, which rejects the promise
MgrStart ==
  /\ handler.action = "supervisor"
  /\ Len(calls) < MaxStartCalls
  /\ \E artifacts \in BOOLEAN, launch \in { "run", "zombie" } :
       IF handler.process # 0
       THEN /\ calls' = Append(calls, AlreadyRunning(artifacts))
            /\ UNCHANGED << handler, child >>
       ELSE IF ~artifacts
       THEN /\ calls' = Append(calls, NotFound)
            /\ UNCHANGED << handler, child >>
       ELSE /\ handler.spawned < MaxStarts
            /\ LET c == handler.spawned + 1
               IN /\ handler' = [handler EXCEPT !.process = c, !.spawned = c,
                                                !.resolved[c] = launch = "zombie"]
                  /\ child' = [child EXCEPT ![c].st = launch]
                  /\ calls' = Append(calls, Spawned(c))
  /\ UNCHANGED << sims, simulator, wdaManager, wdaClient, refStore, mgr, client, cmd, ready,
                  received, issued, exitScheduled, exited >>
  /\ UNCHANGED << parserVars, channelVars >>

\* the child prints the readiness marker: the promise of its start() resolves
MgrChildReady(c) ==
  /\ handler.action = "supervisor"
  /\ child[c].st = "run"
  /\ ~handler.resolved[c]
  /\ handler' = [handler EXCEPT !.resolved[c] = TRUE]
  /\ UNCHANGED << daemonVars, parserVars, channelVars, calls >>

\* stop() up to its await: with a handle SIGTERM, the grace timer and the close
\* listener on the process of the handle; without one nothing
StopBegun(h, s) ==
  IF h.process = 0 THEN [h EXCEPT !.stops[s].pc = "done"]
  ELSE [h EXCEPT !.stops[s] = [pc |-> "wait", on |-> h.process, killed |-> 0]]

MgrStop(s) ==
  /\ handler.action = "supervisor"
  /\ handler.stops[s].pc = "none"
  /\ \A t \in 1..(s - 1) : handler.stops[t].pc # "none"
  /\ child' = Kill(handler, "SIGTERM")
  /\ handler' = StopBegun(handler, s)
  /\ UNCHANGED << sims, simulator, wdaManager, wdaClient, refStore, mgr, client, cmd, ready,
                  received, issued, exitScheduled, exited >>
  /\ UNCHANGED << parserVars, channelVars, calls >>

\* the 120 s timer of the start() that spawned c: this.stop(), not awaited
MgrStartupTimeout(c, s) ==
  /\ handler.action = "supervisor"
  /\ child[c].st # "none"
  /\ ~handler.resolved[c]
  /\ handler.stops[s].pc = "none"
  /\ \A t \in 1..(s - 1) : handler.stops[t].pc # "none"
  /\ child' = Kill(handler, "SIGTERM")
  /\ handler' = StopBegun([handler EXCEPT !.resolved[c] = TRUE], s)
  /\ UNCHANGED << sims, simulator, wdaManager, wdaClient, refStore, mgr, client, cmd, ready,
                  received, issued, exitScheduled, exited >>
  /\ UNCHANGED << parserVars, channelVars, calls >>

\* "close" of child c: the listener of its start() sets this.process = null,
\* the listeners of the stop() calls that wait on c clear their timers and
\* resolve, and those calls return
MgrChildClose(c) ==
  /\ handler.action = "supervisor"
  /\ child[c].st \in { "run", "zombie" }
  /\ child' = [child EXCEPT ![c].st = "closed"]
  /\ handler' = [handler EXCEPT
       !.process = 0,
       !.resolved[c] = TRUE,
       !.stops = [s \in StopCalls |->
                    IF handler.stops[s].pc = "wait" /\ handler.stops[s].on = c
                    THEN [handler.stops[s] EXCEPT !.pc = "done"] ELSE handler.stops[s]]]
  /\ UNCHANGED << sims, simulator, wdaManager, wdaClient, refStore, mgr, client, cmd, ready,
                  received, issued, exitScheduled, exited >>
  /\ UNCHANGED << parserVars, channelVars, calls >>

\* a grace timer after which stop() returns without clearing the handle
MgrGraceKeepsHandle(s) ==
  /\ handler.action = "supervisor"
  /\ handler.stops[s].pc = "wait"
  /\ child' = Kill(handler, "SIGKILL")
  /\ handler' = [handler EXCEPT !.stops[s].pc = "done", !.stops[s].killed = handler.process]
  /\ UNCHANGED << sims, simulator, wdaManager, wdaClient, refStore, mgr, client, cmd, ready,
                  received, issued, exitScheduled, exited >>
  /\ UNCHANGED << parserVars, channelVars, calls >>

\* the 5 s grace timer of stop() call s: this.process?.kill("SIGKILL"), which
\* goes to the process the handle holds by now, and resolve; the call goes on
\* with this.process = null and returns
MgrGrace(s) ==
  /\ handler.action = "supervisor"
  /\ handler.stops[s].pc = "wait"
  /\ child' = Kill(handler, "SIGKILL")
  /\ handler' = [handler EXCEPT !.process = 0, !.stops[s].pc = "done",
                                !.stops[s].killed = handler.process]
  /\ UNCHANGED << sims, simulator, wdaManager, wdaClient, refStore, mgr, client, cmd, ready,
                  received, issued, exitScheduled, exited >>
  /\ UNCHANGED << parserVars, channelVars, calls >>

ManagerNext ==
  \/ MgrStart
  \/ \E c \in Mgrs : MgrChildReady(c)
  \/ \E s \in StopCalls : MgrStop(s)
  \/ \E c \in Mgrs, s \in StopCalls : MgrStartupTimeout(c, s)
  \/ \E c \in Mgrs : MgrChildClose(c)
  \/ \E s \in StopCalls : MgrGrace(s)

ManagerSpec == ManagerInit /\ [][ManagerNext]_vars

\* a grace timer that was not cleared fires
ManagerLive == ManagerSpec /\ \A s \in StopCalls : WF_vars(MgrGrace(s))

\* ------------------------------------------------------------------ one sendCommand
\* One call of SocketClient.sendCommand and the connection it opens.  handler
\* is the closure of the call (socket, timer, buffer, resolved), the promise it
\* returned (outcome) and the handler the server runs for the command (server);
\* calls lists the resolve and reject calls of the closure and the return of
\* the server's handler, in their order.
MaxLate == 1

Bool(b) == [t |-> "boolean", v |-> b]

\* the first line the client reads: a success response, an error response, a
\* response with a key the schema does not know, JSON that is no Response, and
\* text that is no JSON
ResponseLines ==
  { JsonLine([id |-> Str("a"), success |-> Bool(TRUE), data |-> Str("snapshot")]),
    JsonLine([id |-> Str("a"), success |-> Bool(FALSE), error |-> Str("Failed")]),
    JsonLine([id |-> Str("a"), success |-> Bool(TRUE), extra |-> Str("x")]),
    JsonLine([id |-> Str("a"), success |-> Bool(FALSE)]),
    [text |-> "not json", isObject |-> FALSE, obj |-> EmptyMap] }

\* ResponseSchema.safeParse: the union of SuccessResponse and ErrorResponse,
\* each of which keeps its own keys only
ResponseSchema(obj) ==
  LET has(k, t) == k \in DOMAIN obj /\ obj[k].t = t
      keep(keys) == [k \in DOMAIN obj \cap keys |-> obj[k]]
  IN IF has("id", "string") /\ has("success", "boolean") /\ obj.success.v
     THEN [success |-> TRUE, data |-> keep({ "id", "success", "data" })]
     ELSE IF has("id", "string") /\ has("success", "boolean") /\ ~obj.success.v
             /\ has("error", "string")
     THEN [success |-> TRUE, data |-> keep({ "id", "success", "error" })]
     ELSE [success |-> FALSE, data |-> EmptyMap]

Resolved(value) == [settled |-> "resolve", value |-> value, message |-> None]
Rejected(message) == [settled |-> "reject", value |-> EmptyMap, message |-> message]
Handled == [settled |-> "handled", value |-> EmptyMap, message |-> None]

\* what the data listener settles the promise with for the first line
ParsedLine(line) ==
  IF ~line.isObject THEN Rejected("Failed to parse daemon response")
  ELSE IF ResponseSchema(line.obj).success THEN Resolved(ResponseSchema(line.obj).data)
  ELSE Rejected("Invalid response format from daemon")

ErrorCodes == { "ENOENT", "ECONNREFUSED", "EACCES", "ECONNRESET" }

\* an error listener that passes every error on as it is
ErrorMessageAsIs(code) == code

\* the message the error listener rejects with
ErrorMessage(code) ==
  CASE code = "ENOENT" -> "Daemon not running. Start with: ios-agent start-session"
    [] code = "ECONNREFUSED" ->
         "Daemon not responding. Try: ios-agent stop-session && ios-agent start-session"
    [] OTHER -> code

\* the endpoint: the daemon listens, there is no socket file, there is a socket
\* file nobody listens on, or one the caller may not open
Endpoints == { "listening", "absent", "stale", "denied" }

ConnectError(endpoint) ==
  CASE endpoint = "absent" -> "ENOENT"
    [] endpoint = "stale" -> "ECONNREFUSED"
    [] OTHER -> "EACCES"

SendInit ==
  /\ ParserAtRest
  /\ ChannelAtRest
  /\ SessionActive
  /\ refStore = EmptyMap
  /\ \E e \in Endpoints :
       handler = [action |-> "send", endpoint |-> e, socket |-> "connecting",
                  timer |-> "armed", line |-> NoLine, complete |-> FALSE, late |-> 0,
                  resolved |-> FALSE, outcome |-> Handled, server |-> "none",
                  wire |-> NoLine]
  /\ calls = <<>>

\* a promise is settled by the first resolve or reject; Handled stands for pending
Settle(h, o) == [h EXCEPT !.outcome = IF @ = Handled THEN o ELSE @]

\* "connect": the command is written
SendConnected ==
  /\ handler.action = "send"
  /\ handler.socket = "connecting"
  /\ handler.endpoint = "listening"
  /\ handler' = [handler EXCEPT !.socket = "open", !.server = "sent"]
  /\ UNCHANGED << daemonVars, parserVars, channelVars, calls >>

\* "data" at the server, whatever became of the connection since the write:
\* processCommand parses the line and calls the handler, which sends its
\* request to the backend
SendReceived ==
  /\ handler.action = "send"
  /\ handler.server = "sent"
  /\ handler' = [handler EXCEPT !.server = "handling"]
  /\ UNCHANGED << daemonVars, parserVars, channelVars, calls >>

\* "error": at the connect, or on the open connection
SendError ==
  /\ handler.action = "send"
  /\ \E code \in ErrorCodes :
       /\ \/ handler.socket = "connecting" /\ handler.endpoint # "listening"
             /\ code = ConnectError(handler.endpoint)
          \/ handler.socket \in { "open", "ended" } /\ code = "ECONNRESET"
       /\ IF handler.resolved
          THEN handler' = [handler EXCEPT !.socket = "errored"] /\ calls' = calls
          ELSE /\ handler' = Settle([handler EXCEPT !.socket = "errored", !.timer = "cleared",
                                                    !.resolved = TRUE],
                                    Rejected(ErrorMessage(code)))
               /\ calls' = Append(calls, Rejected(ErrorMessage(code)))
  /\ UNCHANGED << daemonVars, parserVars, channelVars >>

\* a timer that takes the handler of the server down with the connection
SendTimerCancels ==
  /\ handler.action = "send"
  /\ handler.timer = "armed"
  /\ IF handler.resolved
     THEN handler' = [handler EXCEPT !.timer = "fired"] /\ calls' = calls
     ELSE /\ handler' = Settle([handler EXCEPT !.timer = "fired", !.resolved = TRUE,
                                               !.socket = "destroyed", !.wire = NoLine,
                                               !.server = IF @ \in { "sent", "handling" } THEN "none" ELSE @],
                               Rejected("Command timed out"))
          /\ calls' = Append(calls, Rejected("Command timed out"))
  /\ UNCHANGED << daemonVars, parserVars, channelVars >>

\* the timer of the call: socket.destroy() and reject, unless resolved
SendTimer ==
  /\ handler.action = "send"
  /\ handler.timer = "armed"
  /\ IF handler.resolved
     THEN handler' = [handler EXCEPT !.timer = "fired"] /\ calls' = calls
     ELSE /\ handler' = Settle([handler EXCEPT !.timer = "fired", !.resolved = TRUE,
                                               !.socket = "destroyed", !.wire = NoLine],
                               Rejected("Command timed out"))
          /\ calls' = Append(calls, Rejected("Command timed out"))
  /\ UNCHANGED << daemonVars, parserVars, channelVars >>

\* the handler of the server returns: handleSnapshot got the source and replaced
\* the table; processCommand writes the response, which goes out when the
\* connection is still there (the error of a write to a closed one is ignored)
SendServed ==
  /\ handler.action = "send"
  /\ handler.server = "handling"
  /\ refStore' = StoreRefs(parseWDASource(SourceA).refMap)
  /\ \E line \in ResponseLines :
       handler' = [handler EXCEPT !.server = "written",
                                  !.wire = IF handler.socket \in { "open", "ended" }
                                           THEN line ELSE NoLine]
  /\ calls' = Append(calls, Handled)
  /\ UNCHANGED << sims, simulator, wdaManager, wdaClient, mgr, child, client, cmd, ready,
                  received, issued, exitScheduled, exited >>
  /\ UNCHANGED << parserVars, channelVars >>

\* "data": a chunk without the newline, the chunk with it, or a chunk after it;
\* with a newline in the buffer the listener clears the timer, ends the socket
\* and settles with the first line
SendData ==
  /\ handler.action = "send"
  /\ handler.socket \in { "open", "ended" }
  /\ handler.wire # NoLine
  /\ \E newline \in BOOLEAN :
       /\ handler.complete => newline /\ handler.late < MaxLate
       /\ IF ~newline
          THEN /\ handler.line = NoLine
               /\ handler' = [handler EXCEPT !.line = handler.wire]
               /\ calls' = calls
          ELSE /\ handler' = Settle([handler EXCEPT
                                       !.line = handler.wire, !.complete = TRUE,
                                       !.late = IF handler.complete THEN @ + 1 ELSE @,
                                       !.timer = IF @ = "armed" THEN "cleared" ELSE @,
                                       !.resolved = TRUE, !.socket = "ended"],
                                    ParsedLine(handler.wire))
               /\ calls' = Append(calls, ParsedLine(handler.wire))
  /\ UNCHANGED << daemonVars, parserVars, channelVars >>

\* "close": after an error, a destroy or an end, or because the peer went away
SendClose ==
  /\ handler.action = "send"
  /\ handler.socket \in { "open", "ended", "errored", "destroyed" }
  /\ IF handler.resolved
     THEN handler' = [handler EXCEPT !.socket = "closed", !.wire = NoLine] /\ calls' = calls
     ELSE /\ handler' = Settle([handler EXCEPT !.socket = "closed", !.wire = NoLine,
                                               !.timer = "cleared", !.resolved = TRUE],
                               Rejected("Connection closed unexpectedly"))
          /\ calls' = Append(calls, Rejected("Connection closed unexpectedly"))
  /\ UNCHANGED << daemonVars, parserVars, channelVars >>

SendNext ==
  \/ SendConnected
  \/ SendReceived
  \/ SendError
  \/ SendTimer
  \/ SendServed
  \/ SendData
  \/ SendClose

SendSpec == SendInit /\ [][SendNext]_vars

\* a timer that was not cleared fires
SendLive == SendSpec /\ WF_vars(SendTimer)

\* ------------------------------------------------------------------ the guards of the handlers
\* One command that handleCommand passes to a handler other than those of the
\* session, the status and the device list, in a daemon without a session,
\* with the device of a failed start, or with a session: the guard of the
\* handler, then its first call of a collaborator and the answer.
NoSimulatorMessage == [text |-> "No simulator selected", suggests |-> "start-session"]


\* the first thing a handler asks of a collaborator once its guard let it pass
FirstCall(action) ==
  CASE action = "snapshot" -> "getSource"
    [] action = "screenshot" -> "screenshot"
    [] action \in { "tap", "type", "clear", "swipe", "wait" } -> "findElement"
    [] action \in { "alert-accept", "alert-dismiss", "alert-button" } -> "getAlertText"
    [] action = "launch" -> "launchApp"
    [] action = "terminate" -> "terminateApp"
    [] OTHER -> "installApp"

GuardInit ==
  /\ ParserAtRest
  /\ ChannelAtRest
  /\ StatusStates
  /\ \E a \in Actions \ { "start-session", "stop-session", "status", "list-sims" }, id \in Ids :
       handler = [action |-> a, id |-> id, pc |-> "dispatch", ok |-> FALSE,
                  error |-> NoMessage]
  /\ calls = <<>>

\* handleCommand calls the handler, which returns the error of its guard or
\* goes as far as its first await
GuardDispatch ==
  /\ handler.pc = "dispatch"
  /\ handler.action \in Actions
  /\ IF NeedsClient(handler.action) /\ wdaClient = 0
     THEN handler' = ReturnError(handler, NotRunningMessage) /\ calls' = calls
     ELSE IF NeedsSimulator(handler.action) /\ simulator = 0
     THEN handler' = ReturnError(handler, NoSimulatorMessage) /\ calls' = calls
     ELSE /\ handler' = [handler EXCEPT !.pc = "await"]
          /\ calls' = Append(calls, FirstCall(handler.action))
  /\ UNCHANGED << daemonVars, parserVars, channelVars >>

\* the collaborator answers and the handler returns; a snapshot that succeeds
\* has replaced the reference table
GuardAnswered ==
  /\ handler.pc = "await"
  /\ handler.action \in Actions
  /\ \E ok \in BOOLEAN :
       /\ handler' = IF ok THEN ReturnSuccess(handler) ELSE ReturnError(handler, FailedMessage)
       /\ refStore' = IF ok /\ handler.action = "snapshot"
                      THEN StoreRefs(parseWDASource(SourceA).refMap) ELSE refStore
  /\ UNCHANGED << sims, simulator, wdaManager, wdaClient, mgr, child, client, cmd, ready,
                  received, issued, exitScheduled, exited >>
  /\ UNCHANGED << parserVars, channelVars, calls >>

GuardNext ==
  \/ GuardDispatch
  \/ GuardAnswered

GuardSpec == GuardInit /\ [][GuardNext]_vars

\* ------------------------------------------------------------------ properties
\* C1: commands of one connection run strictly in arrival order: while the
\* response of an earlier command of a connection is not yet written, no later
\* command of that connection has started its handler.
C1_InOrderPerConnection ==
  \A a, b \in Busy :
    (a < b /\ cmd[a].conn = cmd[b].conn) => cmd[b].pc = "queued"

\* the places of a handler of a state-mutating command that lie after its first
\* and before its last access to state.simulator, state.wdaManager,
\* state.wdaClient and state.refStore
Inside(c) ==
  \/ /\ c.action = "start-session"
     /\ c.pc \in { "wdaStart", "started", "readyFetch", "readySleep", "createSession",
                   "catch", "mgrStop", "mgrStopped" }
  \/ /\ c.action = "stop-session"
     /\ c.pc \in { "delReq", "deleted", "mgrStop", "mgrStopped" }
  \/ /\ c.action = "snapshot"
     /\ c.pc \in { "ensure", "srcReq" }

\* C2: state-mutating commands are serialized: two handlers of start-session,
\* stop-session or snapshot that came in on different connections are never
\* both between their first and their last access to the shared state.
C2_MutatorsSerialized ==
  \A a, b \in Busy :
    (a # b /\ cmd[a].conn # cmd[b].conn) => ~(Inside(cmd[a]) /\ Inside(cmd[b]))

\* C3: a token of an earlier snapshot never resolves to another element: the
\* descriptor resolveRef looks up for a token is the one every snapshot that
\* issued this token recorded for it.
C3_StaleTokenNeverRebinds ==
  \A i \in Busy :
    (cmd[i].action = "tap" /\ cmd[i].entry # NoEntry) =>
      \A g \in issued : cmd[i].ref \in DOMAIN g => g[cmd[i].ref] = cmd[i].entry

\* a backend child that runs and was not killed
Alive(m) == child[m].st = "run" /\ ~child[m].kill

\* C4: at most one session exists: every backend child that is alive is the
\* child of the supervisor state.wdaManager refers to.
C4_AtMostOneSession ==
  \A m \in Mgrs : Alive(m) => wdaManager = m

\* a start-session handler is about to return an error response
StartFails(i) ==
  cmd[i].action = "start-session" /\ cmd[i].pc = "respond" /\ ~cmd[i].resp.ok

\* C5: when start-session responds with an error the daemon is idle: it records
\* no device, no supervisor and no backend client.
C5_StartErrorLeavesIdle ==
  \A i \in Busy : StartFails(i) => simulator = 0 /\ wdaManager = 0 /\ wdaClient = 0

\* C6 (what holds when the response is produced): a start-session that fails
\* because the startup timer fired responds when its supervisor holds no process
\* handle and its child was sent SIGTERM and has exited or was sent SIGKILL.
C6_TimedOutStartTornDown ==
  \A i \in Busy :
    (StartFails(i) /\ cmd[i].resp.kind = "wda-timeout") =>
      /\ ~mgr[cmd[i].mgr].process
      /\ child[cmd[i].mgr].term
      /\ ~Alive(cmd[i].mgr)

\* a tap handler awaits the answer of the backend to its element lookup (or to
\* the session request before it) or to its click
TapAwaits(i) ==
  cmd[i].action = "tap" /\ cmd[i].pc \in { "ensure", "findReq", "clickReq" }

\* a stop-session has torn the session down and no session was started since
Stopped == exitScheduled /\ simulator = 0 /\ wdaManager = 0 /\ wdaClient = 0

\* C7: a tap that is in flight when stop-session runs gets its one response (the
\* process does not end while the tap awaits the backend), and the reference
\* table is empty when the tap returns after the stop.
C7_TapAnsweredAcrossStop ==
  /\ (exited /\ Stopped) => \A i \in Busy : ~TapAwaits(i)
  /\ \A i \in Busy :
       (cmd[i].action = "tap" /\ cmd[i].cli # 0 /\ cmd[i].pc = "respond" /\ Stopped)
         => refStore = EmptyMap

\* C8: from the return of a successful stop-session until the process exits the
\* reference table is empty (as long as no session is started again).
C8_TableEmptyAfterStop ==
  (Stopped /\ ~exited) => refStore = EmptyMap

\* a stop-session handler is about to return its response
StopReturns(i) == cmd[i].action = "stop-session" /\ cmd[i].pc = "respond"

\* C9: stop-session returns success, also when the remote delete failed or no
\* session was active, and when it returns the daemon records no client, no
\* supervisor and no device, the child of the supervisor it stopped is torn down
\* and the reference table is empty.
C9_StopReturnsIdle ==
  \A i \in Busy :
    StopReturns(i) =>
      /\ cmd[i].resp.ok
      /\ wdaClient = 0 /\ wdaManager = 0 /\ simulator = 0
      /\ cmd[i].tgt # 0 => ~Alive(cmd[i].tgt)
      /\ refStore = EmptyMap

\* C10: the process never exits between the return of a successful stop-session
\* and the write of its response.
C10_AckBeforeExit ==
  exited => \A i \in Busy : ~(StopReturns(i) /\ cmd[i].resp.ok)

\* the process has exited after a stop-session stopped the supervisor of a
\* session and its response was written
C10_ExitedAfterStop ==
  /\ exited
  /\ Stopped
  /\ \E m \in Mgrs : mgr[m].created /\ child[m].term
  /\ \A i \in Busy : cmd[i].action # "stop-session"

\* the handlers that await the answer to a POST /session they sent on client k
CreatesPending(k) ==
  { i \in Busy : cmd[i].cli = k /\ cmd[i].pc \in { "createSession", "ensure" } }

\* C11: for one backend client a create-session request is in flight only when
\* no session id is cached and no other create-session request of that client
\* is in flight (so that, with no delete in between, one session is created).
C11_CreateOnlyWhenNoSession ==
  \A k \in Mgrs :
    /\ Cardinality(CreatesPending(k)) <= 1
    /\ CreatesPending(k) # {} => client[k].sessionId = 0

\* the refs of the elements of a snapshot
ElementRefs(snap) == { snap.elements[k].ref : k \in 1..Len(snap.elements) }

\* C16: in the snapshot parseWDASource produces, every reference in the children
\* list of an element is a key of the reference map, and so is the root
\* reference.
C16_NoDanglingRefs ==
  parsed # NoSnapshot =>
    /\ \A k \in 1..Len(parsed.elements) :
         \A j \in 1..Len(parsed.elements[k].children) :
           parsed.elements[k].children[j] \in DOMAIN parsed.refMap
    /\ parsed.tree \in DOMAIN parsed.refMap

\* a tree was parsed in which the root has two children, one of them with a
\* child of its own and one of them without label and identifier
C16_ParsedNestedTree ==
  /\ parsed # NoSnapshot
  /\ Len(xmlRoot.children) = 2
  /\ \E j \in 1..2 : xmlRoot.children[j].children # <<>>
  /\ \E j \in 1..2 : xmlRoot.children[j].tag = "Other"

\* C17: within one snapshot no two elements carry the same ref, and there are as
\* many elements as keys of the reference map and as nodes of the input tree.
C17_RefsUnique ==
  parsed # NoSnapshot =>
    /\ \A a, b \in 1..Len(parsed.elements) :
         parsed.elements[a].ref = parsed.elements[b].ref => a = b
    /\ Len(parsed.elements) = Cardinality(DOMAIN parsed.refMap)
    /\ Len(parsed.elements) = NodeCount(xmlRoot)

\* a tree of four nodes with two siblings was parsed
C17_ParsedSiblings ==
  /\ parsed # NoSnapshot
  /\ NodeCount(xmlRoot) = 4
  /\ \E k \in 1..Len(parsed.elements) : Len(parsed.elements[k].children) >= 2

\* a snapshot handler is about to return its success response
SnapshotReturns(i) ==
  cmd[i].action = "snapshot" /\ cmd[i].pc = "respond" /\ cmd[i].resp.ok

\* C15: when a snapshot command returns success the reference table is exactly
\* the reference map of the snapshot it returns: the same keys with the same
\* descriptors, and nothing of an earlier generation.
C15_TableIsReturnedMap ==
  \A i \in Busy : SnapshotReturns(i) => refStore = cmd[i].data

\* a snapshot returns a map that lacks a key an earlier snapshot issued
C15_SmallerSnapshotReturns ==
  \E i \in Busy :
    /\ SnapshotReturns(i)
    /\ \E g \in issued : \E r \in DOMAIN g : r \notin DOMAIN cmd[i].data

\* the backend queries among the calls of the handler
Finds ==
  LET IsFind(c) == c.kind = "find"
  IN SelectSeq(calls, IsFind)

\* the calls of the handler that went to the backend
BackendCalls ==
  LET IsRequest(c) == c.kind # "get"
  IN SelectSeq(calls, IsRequest)

\* C18: for a descriptor with an identifier and no label, when the query by
\* identifier finds an element resolveRef has issued exactly one backend query,
\* that one, and it returns the handle the backend answered with.
C18_IdentifierQueryOnly ==
  ( /\ handler.entry.identifier # None
    /\ handler.entry.label = None
    /\ Finds # <<>>
    /\ Finds[1].answer # None )
  => /\ Len(Finds) = 1
     /\ Finds[1].using = "accessibility id"
     /\ Finds[1].value = << handler.entry.identifier >>
     /\ handler.elementId = Finds[1].answer

\* a tap on an element known by its identifier alone has found it and succeeded
C18_TapByIdentifier ==
  /\ handler.action = "tap"
  /\ handler.pc = "done"
  /\ handler.ok
  /\ handler.entry.identifier = "login"
  /\ handler.entry.label = None
  /\ handler.elementId \in Handles

\* C19: in an active session a command whose well-formed ref is not in the
\* reference table fails with the unknown-reference error that suggests a
\* snapshot, and sends nothing to the backend.
C19_UnknownRefNoBackendCall ==
  ( /\ wdaClient # 0
    /\ startsWithMarker(handler.ref)
    /\ handler.ref \notin DOMAIN refStore )
  => /\ BackendCalls = <<>>
     /\ handler.pc \in { "dispatch", "done" }
     /\ handler.pc = "done" => ~handler.ok /\ handler.error = UnknownRefMessage

\* a swipe or a wait has failed on a well-formed ref used before the first snapshot
C19_UnknownRefRejected ==
  /\ wdaClient # 0
  /\ refStore = EmptyMap
  /\ handler.action \in { "swipe", "wait" }
  /\ startsWithMarker(handler.ref)
  /\ handler.pc = "done"
  /\ handler.error = UnknownRefMessage

\* C20: a command whose ref lacks the marker prefix is rejected as malformed
\* before the reference table is consulted and before anything is sent to the
\* backend.
C20_MalformedRejectedFirst ==
  ( /\ wdaClient # 0
    /\ ~startsWithMarker(handler.ref)
    /\ handler.pc = "done" )
  => /\ calls = <<>>
     /\ ~handler.ok
     /\ handler.error = InvalidRefMessage

\* the run of the data listener takes or finishes its current line in this step
Steps(i) == pending'[i] # pending[i]

\* C12: the response written for a line that parsed as a command carries the
\* id of that command, whether the handler returned success, returned an error
\* or threw.
C12_ResponseEchoesId ==
  [][\A i \in Runs :
       pending[i].pc = "respond" /\ Steps(i) =>
         /\ writes' = writes + 1
         /\ out'.id = parseCommand(pending[i].line).data["id"].v]_vars

\* C12 witness: the error response of a handler that threw was written with
\* the id "b" of its command.
C12_ThrownAnswered == out = [id |-> "b", success |-> FALSE, error |-> "thrown"] /\ writes = 1

\* what processCommand does with a line that is no command: one response with
\* the id "unknown", no handler, no change of the session, and the loop of the
\* listener goes on to the next line of the chunk
RejectedInStep(i) ==
  /\ writes' = writes + 1
  /\ out' = InvalidResponse
  /\ handled' = handled
  /\ UNCHANGED daemonVars
  /\ pending'[i].pc = (IF pending[i].rest > 0 THEN "line" ELSE "none")

\* C13 as stated: every line that is no valid command gets exactly one error
\* response with the id "unknown", reaches no handler, changes no session
\* state and leaves the connection open.
C13_EveryInvalidLineRejected ==
  [][\A i \in Runs :
       pending[i].pc = "line" /\ Steps(i) /\ ~parseCommand(pending[i].line).success
         => RejectedInStep(i)]_vars

\* C13 amended: every line that is not blank and is no valid command gets
\* exactly one error response with the id "unknown", reaches no handler,
\* changes no session state and leaves the connection open; a blank line is
\* skipped without a response.
C13_NonBlankInvalidLineRejected ==
  [][\A i \in Runs :
       pending[i].pc = "line" /\ Steps(i) /\ ~parseCommand(pending[i].line).success
         => IF pending[i].line.text = "blank"
            THEN UNCHANGED << writes, out, handled, daemonVars >>
            ELSE RejectedInStep(i)]_vars

\* C13 witness: the first line of a chunk was rejected with the "unknown"
\* response, and the next line of the chunk was parsed and handled with
\* success; its response is about to be written.
C13_ValidAfterInvalid ==
  \E i \in Runs :
    /\ pending[i].afterInvalid
    /\ pending[i].pc = "respond"
    /\ pending[i].resp = successResponse(pending[i].id)
    /\ out = InvalidResponse
    /\ writes = 1
    /\ handled = 1

StrategyOf(c) ==
  IF c.using = "accessibility id" THEN 1 ELSE IF Len(c.value) = 4 THEN 2 ELSE 3

\* the handler ran resolveRef once on a well-formed ref of the table
ResolvesOnce ==
  /\ handler.action # "wait"
  /\ wdaClient # 0
  /\ startsWithMarker(handler.ref)
  /\ handler.ref \in DOMAIN refStore
  /\ handler.pc # "dispatch"

C22_IdentifierExcludesPredicates ==
  ResolvesOnce /\ handler.entry.identifier # None =>
    \A j \in 1..Len(Finds) : StrategyOf(Finds[j]) = 1

\* C24: start-session goes down the whole chain (exact name, substring, booted
\* device, preferred class, any device), so its device selection fails only
\* when no device exists, and then with the no-devices error.
C24_SelectionFailsOnlyWithoutDevices ==
  \A i \in Slots :
    ( /\ cmd[i].action = "start-session"
      /\ cmd[i].pc = "respond"
      /\ cmd[i].resp.kind \in { "sim-not-found", "no-sims" } )
    => sims = <<>> /\ cmd[i].resp.kind = "no-sims"

\* C23: no step of status changes the selected device, the supervisor, the
\* backend client, the cached remote session id or the reference table, and
\* status returns success whatever its probes of the device tool and of the
\* backend gave.
C23_StatusMutatesNothing ==
  [][/\ UNCHANGED << simulator, wdaManager, wdaClient, refStore, mgr, child, client >>
     /\ handler'.pc = "done" => handler'.ok]_vars

\* C23 witness: in an active session with a filled reference table status has
\* returned success although the device tool threw and the backend was
\* unreachable.
C23_StatusDespiteFailures ==
  /\ handler.action = "status"
  /\ handler.pc = "done"
  /\ handler.ok
  /\ wdaClient # 0
  /\ refStore # EmptyMap
  /\ calls = << Probe("device tool", "threw"), Probe("backend", "unreachable") >>

\* C25: when a system alert is displayed and a tap, type, clear or swipe on a
\* ref of the table could not be carried out, the error of the response is
\* about the alert, not the element-not-found or the action-failed error.
C25_BlockedActionReportsAlert ==
  ( /\ ResolvesOnce
    /\ handler.alert
    /\ handler.pc = "done"
    /\ ~handler.ok )
  => handler.error \notin { NotFoundMessage, FailedMessage }

\* the ticks from which on the element is resolvable until the timeout
StaysFrom(h) ==
  { a \in 0..MaxTimeout : \A t \in a..(h.timeout - 1) : h.visible[t] }

\* C26: with a backend that answers at once, a wait whose element is
\* resolvable from some time on that lies at least one poll interval before
\* the timeout responds success with found = true and an elapsed time that is
\* the time of a poll at which the element was there; it responds with the
\* timeout error only if no poll made before the timeout found the element;
\* it never responds success without a poll that found it.
C26_WaitFindsBeforeTimeout ==
  handler.action = "wait" /\ handler.pc = "done" =>
    LET h == handler
        n == Len(calls)
    IN /\ (\E a \in StaysFrom(h) : a + pollInterval <= h.timeout)
            => h.ok /\ h.found
       /\ h.ok => /\ n > 0
                  /\ calls[n].found
                  /\ h.visible[calls[n].at]
                  /\ h.elapsed = calls[n].at - h.startTime
                  /\ h.elapsed < h.timeout
                  /\ \E t \in 0..h.elapsed : h.visible[t]
       /\ ~h.ok => /\ h.error = TimeoutMessage
                   /\ \A j \in 1..n : ~calls[j].found
                   /\ \A t \in 0..(h.timeout - 1) :
                        t % pollInterval = 0 => ~h.visible[t]

\* C26 witness: the element appeared at tick 3 of a wait with a timeout of 5
\* ticks; the polls at ticks 0 and 2 missed it, the poll at tick 4 found it.
C26_FoundAtThirdPoll ==
  /\ handler.action = "wait"
  /\ handler.pc = "done"
  /\ handler.ok
  /\ handler.timeout = 5
  /\ \A t \in 0..MaxTimeout : handler.visible[t] = (t >= 3)
  /\ handler.elapsed = 4
  /\ Len(calls) = 3

\* C27: every operation of the backend client that received a non-success
\* response has failed with an error whose message contains the body text of
\* that response.
C27_NonSuccessBodySurfaces ==
  ( /\ handler.action \in ClientOps
    /\ handler.pc = "done"
    /\ calls # << >>
    /\ calls[Len(calls)].response.status \in { "404", "500" } )
  => /\ handler.threw
     /\ \E j \in 1..Len(handler.message) :
          handler.message[j] = calls[Len(calls)].response.body

\* C28: a stop() call of a supervisor goes through three phases in order: it
\* sends SIGTERM, waits for the close of the child for at most the grace
\* period, and sends SIGKILL only when the child has not closed by then.  A call
\* sends SIGKILL only from its grace timer, only after its own SIGTERM and never
\* once the child it waits on has closed; a call that returns leaves no handle;
\* a call on a supervisor without a process changes nothing; every call returns.
C28_StopPhases ==
  /\ [][\A s \in StopCalls :
          /\ handler.stops[s].pc = "none" /\ handler'.stops[s].pc # "none" =>
               IF handler.process = 0
               THEN /\ handler'.stops[s] = [NoStop EXCEPT !.pc = "done"]
                    /\ handler'.process = 0
                    /\ child' = child
               ELSE /\ handler'.stops[s] = [pc |-> "wait", on |-> handler.process, killed |-> 0]
                    /\ handler'.process = handler.process
                    /\ child[handler.process].st = "run" => child'[handler.process].term
                    /\ \A c \in Mgrs : child'[c].kill = child[c].kill
          /\ handler'.stops[s].killed # handler.stops[s].killed =>
               /\ handler.stops[s].pc = "wait"
               /\ handler.stops[s].on # 0
               /\ child[handler.stops[s].on].st # "closed"
               /\ handler'.stops[s].pc = "done"
          /\ handler.stops[s].pc = "wait" /\ child'[handler.stops[s].on].st = "closed" =>
               /\ handler'.stops[s] = [handler.stops[s] EXCEPT !.pc = "done"]
               /\ \A c \in Mgrs : child'[c].kill = child[c].kill
          /\ handler.stops[s].pc # "done" /\ handler'.stops[s].pc = "done" => handler'.process = 0
          /\ handler.stops[s].pc = "done" => handler'.stops[s] = handler.stops[s]]_vars
  /\ \A s \in StopCalls : (handler.action = "supervisor" /\ handler.stops[s].pc = "wait")
                              ~> (handler.stops[s].pc = "done")

\* a stop() that had to kill: the child ignored SIGTERM for the whole grace period
C28_ForcedAfterGrace ==
  /\ handler.action = "supervisor"
  /\ \E c \in Mgrs, s \in StopCalls :
       /\ child[c].st = "run" /\ child[c].term /\ child[c].kill
       /\ handler.stops[s] = [pc |-> "done", on |-> c, killed |-> c]
       /\ handler.process = 0

\* C29: start() on a supervisor that holds a process throws "WDA is already
\* running", spawns nothing and leaves the handle and every child as they were;
\* on a supervisor whose handle was cleared by the close of its child start()
\* does not throw that error.
C29_StartGuard ==
  [][Len(calls') > Len(calls) =>
       IF handler.process # 0
       THEN /\ calls'[Len(calls')].threw = "WDA is already running"
            /\ calls'[Len(calls')].child = 0
            /\ handler' = handler
            /\ child' = child
       ELSE /\ calls'[Len(calls')].threw # "WDA is already running"
            /\ calls'[Len(calls')].artifacts =>
                  /\ calls'[Len(calls')].threw = None
                  /\ handler'.process = calls'[Len(calls')].child
                  /\ handler'.process # 0
                  /\ child[handler'.process].st = "none"
                  /\ child'[handler'.process].st # "none"]_vars

\* start() spawned, was refused while the child lived, and spawned again after
\* the child had closed
C29_AcceptedAfterExit ==
  /\ handler.action = "supervisor"
  /\ Len(calls) = 3
  /\ calls[1] = Spawned(1)
  /\ calls[2].threw = "WDA is already running"
  /\ calls[3] = Spawned(2)
  /\ child[1].st = "closed"
  /\ handler.process = 2

\* C30: start() on a supervisor without a process, when the project of the
\* backend is not on disk, throws an error with remediation text, spawns no
\* child, and the handle stays empty.
C30_MissingArtifacts ==
  [][Len(calls') > Len(calls) /\ handler.process = 0 /\ ~calls'[Len(calls')].artifacts =>
       /\ calls'[Len(calls')].threw = "WebDriverAgent not found"
       /\ calls'[Len(calls')].remedy # None
       /\ calls'[Len(calls')].child = 0
       /\ child' = child
       /\ handler' = handler
       /\ handler'.process = 0]_vars

\* the project was missing at the first start() and there at the second
C30_FailsThenStarts ==
  /\ handler.action = "supervisor"
  /\ Len(calls) >= 2
  /\ calls[1] = NotFound
  /\ calls[2] = Spawned(1)
  /\ handler.process = 1

\* the number the k-th child of a node numbered n has in document order
ChildNumber(node, n, k) == n + 1 + ForestCount(SubSeq(node.children, 1, k - 1))

\* the nodes of a tree whose root is numbered n, each with its number in
\* document order, its type and the numbers of its children
RECURSIVE DocumentOrder(_, _)
DocumentOrder(node, n) ==
  { [ref |-> RefToken(n), type |-> node.tag,
     children |-> [k \in 1..Len(node.children) |-> RefToken(ChildNumber(node, n, k))]] }
  \cup UNION { DocumentOrder(node.children[k], ChildNumber(node, n, k)) :
               k \in 1..Len(node.children) }

Resolutions(cs) == { g \in 2..Len(cs) : cs[g].kind = "get" }

\* the backend queries of the resolution that begins at g
QueriesOf(cs, g) ==
  LET later == { j \in Resolutions(cs) : j > g }
      end == IF later = {} THEN Len(cs)
             ELSE (CHOOSE j \in later : \A k \in later : j <= k) - 1
  IN SubSeq(cs, g + 1, end)

\* what holds of the resolutions of a handleWait h that made the calls cs
EachResolutionAsks(h, cs) ==
  h.action = "wait" /\ wdaClient # 0 =>
    /\ \A g \in Resolutions(cs) :
         LET q == QueriesOf(cs, g)
             e == refStore[h.ref]
             over == (\E j \in Resolutions(cs) : j > g) \/ h.pc \in { "sleep", "done" }
         IN /\ \A j \in DOMAIN q :
                 /\ q[j].kind = "find"
                 /\ [q[j] EXCEPT !.answer = None] = Query(e, StrategyOf(q[j]))
                 /\ j < Len(q) => q[j].answer = None
            /\ over /\ (q = <<>> \/ q[Len(q)].answer = None) =>
                 \A s \in 1..3 : Applicable(e, s) => \E j \in DOMAIN q : StrategyOf(q[j]) = s
            /\ q # <<>> /\ q[Len(q)].answer # None =>
                 /\ \A j \in Resolutions(cs) : j <= g
                 /\ h.pc = "done" /\ h.ok /\ h.elementId = q[Len(q)].answer
    /\ h.pc = "done" /\ h.ok =>
         \E g \in Resolutions(cs) : QueriesOf(cs, g) # <<>>

\* C36: resolveRef caches nothing: no step of a handler that resolves a ref
\* changes the reference table, whether the resolution succeeds or fails, and
\* of the consecutive resolutions of one ref by handleWait each sends its own
\* queries to the backend, all the applicable ones when none finds the element,
\* so that the result is the answer the backend gave to the last resolution.
C36_ResolveCachesNothing ==
  [][refStore' = refStore /\ EachResolutionAsks(handler', calls')]_vars

\* the first resolution found nothing, the second asked again and found the element
C36_FoundAtSecondResolution ==
  /\ handler.action = "wait"
  /\ handler.pc = "done"
  /\ handler.ok
  /\ Cardinality(Resolutions(calls)) = 2
  /\ \A g \in Resolutions(calls) : QueriesOf(calls, g) # <<>>
  /\ calls[Len(calls)].answer = handler.elementId

\* C37: in every state the reference table is empty or is the refMap of one
\* snapshot the daemon returned: it never holds entries of two snapshots, and
\* as handleSnapshot clears and fills it without an await in between, no
\* handler runs while it is partly filled.
C37_TableIsOneGeneration ==
  refStore = EmptyMap \/ refStore \in issued

\* a second snapshot with fewer refs replaced the table while a tap was in flight
C37_ReplacedUnderTap ==
  /\ Cardinality(issued) >= 2
  /\ refStore = parseWDASource(SourceC).refMap
  /\ \E i \in Busy : cmd[i].action = "tap" /\ cmd[i].pc # "respond"

\* C38: a step of a snapshot handler changes the reference table only when it
\* is the step that returns success; a snapshot that fails, because no client
\* is recorded, because a request fails or because the source does not parse,
\* returns an error response and the table is what it was before the step.
C38_FailedSnapshotKeepsTable ==
  [][\A i \in Slots :
       ( /\ cmd[i].action = "snapshot"
         /\ cmd[i].pc \in { "dispatch", "ensure", "srcReq" }
         /\ cmd'[i] # cmd[i] )
       => IF cmd'[i].pc = "respond" /\ cmd'[i].resp.ok
          THEN refStore' = cmd'[i].data
          ELSE /\ refStore' = refStore
               /\ issued' = issued
               /\ cmd'[i].pc = "respond" =>
                    cmd'[i].resp.kind \in { "not-running", "snapshot-failed" }]_vars

\* a snapshot failed after an earlier one had filled the table, which is still there
C38_FailedAfterFilled ==
  \E i \in Busy :
    /\ cmd[i].action = "snapshot"
    /\ cmd[i].pc = "respond"
    /\ cmd[i].resp = [ok |-> FALSE, kind |-> "snapshot-failed"]
    /\ refStore = parseWDASource(SourceA).refMap

\* C39: when start-session returns success the daemon records a device, a
\* supervisor whose child process is alive and a client that has cached a
\* session id.
C39_SuccessMeansReady ==
  \A i \in Busy :
    ( /\ cmd[i].action = "start-session"
      /\ cmd[i].pc = "respond"
      /\ cmd[i].resp.ok )
    => /\ simulator # 0
       /\ wdaManager # 0
       /\ mgr[wdaManager].process
       /\ Alive(wdaManager)
       /\ wdaClient # 0
       /\ client[wdaClient].sessionId # 0

\* C35: when the process exits on the timer that stop-session set, no child
\* process that a supervisor of this daemon spawned is alive.
C35_NoChildAliveAtExit ==
  exited => \A m \in Mgrs : ~Alive(m)

\* the messages sendCommand rejects with, by the kind of failure
TimeoutErrors == { "Command timed out" }
NotRunningErrors == { "Daemon not running. Start with: ios-agent start-session" }
NotRespondingErrors ==
  { "Daemon not responding. Try: ios-agent stop-session && ios-agent start-session" }
ProtocolErrors == { "Failed to parse daemon response", "Invalid response format from daemon" }
ClosedErrors == { "Connection closed unexpectedly" }

\* the promise of sendCommand is settled, and for the reason its outcome names
SettledFor(h) ==
  /\ h.outcome # Handled
  /\ \/ /\ h.outcome.settled = "resolve"
        /\ h.complete /\ h.line.isObject
        /\ ResponseSchema(h.line.obj).success
        /\ h.outcome.value = ResponseSchema(h.line.obj).data
     \/ /\ h.outcome.settled = "reject"
        /\ \/ h.outcome.message \in TimeoutErrors /\ h.timer = "fired" /\ ~h.complete
           \/ h.outcome.message \in NotRunningErrors /\ h.endpoint = "absent"
           \/ h.outcome.message \in NotRespondingErrors /\ h.endpoint = "stale"
           \/ /\ h.outcome.message \in ProtocolErrors
              /\ h.complete
              /\ ~(h.line.isObject /\ ResponseSchema(h.line.obj).success)
           \/ /\ h.outcome.message \in ClosedErrors
              /\ h.socket = "closed" /\ ~h.complete /\ h.timer = "cleared"
           \/ /\ h.outcome.message \in ErrorCodes \ { "ENOENT", "ECONNREFUSED" }
              /\ ~h.complete /\ h.timer = "cleared"

\* C32: the timeout of the client destroys the socket of the client and does
\* nothing else: the step leaves the handler of the server and the state of the
\* daemon as they were, and the handler, once called, is only ever left by its
\* own return, which replaces the reference table whether or not the client
\* still listens.
C32_TimeoutLeavesServerRunning ==
  [][/\ (handler'.outcome = Rejected("Command timed out") /\ handler.outcome = Handled) =>
          /\ handler'.socket = "destroyed"
          /\ handler'.server = handler.server
          /\ << sims, simulator, wdaManager, wdaClient, refStore, mgr, child, client >>'
               = << sims, simulator, wdaManager, wdaClient, refStore, mgr, child, client >>
     /\ (handler.server = "sent") => (handler'.server \in { "sent", "handling" })
     /\ (handler.server = "handling") =>
          \/ handler'.server = "handling" /\ refStore' = refStore
          \/ handler'.server = "written" /\ refStore' # refStore]_vars

\* the client reported the timeout first; the handler of the server returned
\* afterwards and replaced the reference table
C32_TableReplacedAfterTimeout ==
  /\ handler.action = "send"
  /\ handler.outcome = Rejected("Command timed out")
  /\ calls = << Rejected("Command timed out"), Handled >>
  /\ handler.server = "written"
  /\ refStore = parseWDASource(SourceA).refMap

\* C33 as claimed: a send settles with the first complete response line or with
\* one of five errors: timeout, daemon not running, daemon not responding,
\* protocol, connection closed.
C33_SixOutcomes ==
  handler.action = "send" /\ handler.outcome # Handled =>
    \/ handler.outcome.settled = "resolve"
    \/ handler.outcome.message \in TimeoutErrors \cup NotRunningErrors \cup NotRespondingErrors
                                    \cup ProtocolErrors \cup ClosedErrors

\* C33: the promise of sendCommand settles once and for the reason its outcome
\* names: the first complete line when it is a Response, a protocol error when
\* it is not, the timeout, daemon-not-running for a missing endpoint,
\* daemon-not-responding for a refused connection, the error of the socket for
\* any other socket error, or connection-closed; what arrives after it settled
\* (data, close, error, the timer) leaves the outcome as it is; and the promise
\* does settle.
C33_SettlesOnce ==
  /\ [][/\ (handler.outcome # Handled) => (handler'.outcome = handler.outcome)
        /\ (handler'.outcome # Handled) => SettledFor(handler')
        /\ (handler'.outcome # handler.outcome) =>
             /\ ~handler.resolved /\ handler'.resolved
             /\ calls' = Append(calls, handler'.outcome)]_vars
  /\ (handler.action = "send") ~> (handler.outcome # Handled)

\* a response settled the send, and a later chunk, the close and the timer
\* left it settled with that response
C33_LateEventsIgnored ==
  /\ handler.action = "send"
  /\ handler.outcome.settled = "resolve"
  /\ handler.late = MaxLate
  /\ handler.socket = "closed"
  /\ Len(calls) >= 3

\* C40: with no client recorded each of snapshot, screenshot, tap, type,
\* clear, swipe, wait, alert-accept, alert-dismiss, alert-button, launch and
\* terminate returns at once an error that tells the caller to start a
\* session, calls no collaborator and changes nothing of the state of the
\* daemon; install does so with no device recorded.
C40_GuardedWithoutSession ==
  [][( /\ handler.pc = "dispatch"
       /\ handler'.pc # "dispatch"
       /\ \/ /\ wdaClient = 0
             /\ handler.action \in { "snapshot", "screenshot", "tap", "type", "clear", "swipe",
                                     "wait", "alert-accept", "alert-dismiss", "alert-button",
                                     "launch", "terminate" }
          \/ simulator = 0 /\ handler.action = "install" )
     => /\ handler'.pc = "done"
        /\ ~handler'.ok
        /\ handler'.error.suggests = "start-session"
        /\ calls' = << >>
        /\ << sims, simulator, wdaManager, wdaClient, refStore, mgr, child, client,
              exitScheduled, exited >>'
             = << sims, simulator, wdaManager, wdaClient, refStore, mgr, child, client,
                  exitScheduled, exited >>]_vars

\* an alert-button after a start that failed once the device was selected
C40_AlertButtonAfterFailedStart ==
  /\ handler.action = "alert-button"
  /\ handler.pc = "done"
  /\ simulator # 0
  /\ wdaClient = 0
  /\ handler.error = NotRunningMessage
  /\ calls = << >>

\* C31: a start-session that is suspended on the power-on of the device
\* eventually leaves that suspension (it returns a response or goes on to the
\* next step of the sequence) unless the daemon exits, whatever the device
\* tool does, provided every timer fires and every backend call is answered.
C31_BootIsBounded ==
  (cmd[1].pc = "boot") ~> (cmd[1].pc # "boot" \/ exited)

====

